---- MODULE Spec2Model ----
(***************************************************************************)
(* The retrieval-augmented query pipeline of birb_lm: the Index Store      *)
(* (saveIndex / loadIndex), the progressive ingestion job behind           *)
(* POST /api/ingest/start with its shared progress record, the similarity  *)
(* search, and the conversation-history sanitizer.                         *)
(*                                                                         *)
(* The specifications share the variables:                                 *)
(*   Spec        the ingestion endpoints, the index file and its readers   *)
(*   SpecRun     the same endpoints with one ingestion job at a time       *)
(*   SpecSearch  searchIndex over bounded indexes, queries, k, allow-lists *)
(*   SpecHist    sanitizeHistory over bounded raw histories and limits     *)
(*   SpecChunk   chunkText                                                 *)
(*   SpecRelay   POST /api/chat/stream; SpecFlush its flush logic          *)
(*   SpecSettings  settings.js and resolveProvider                         *)
(*   SpecEmbedder  getEmbedder under concurrent callers                    *)
(*   SpecPage    the settings page's rebuildIndex                          *)
(*   SpecClient  the chat page's SSE read loop                             *)
(***************************************************************************)
EXTENDS Integers, Sequences, FiniteSets, TLC

VARIABLES
    ingestProgress,  \* server.js:89  the process-wide progress record
    run,             \* the async jobs kicked off by POST /api/ingest/start, per slot
    docs,            \* the corpus directory (DOCS_DIR): the files listDocFiles finds
    file,            \* storage/index.json: whether it exists and its content
    resp,            \* what the handler that ran in this step returned (none for a job step)
    lastWrite,       \* history: who wrote ingestProgress last (run slot, start or job)
    latest,          \* history: the slot of the most recently started run
    stable,          \* history: the Index of the last save that ran to completion
    sIn,             \* SpecSearch: the call's inputs (query, k, allowedSourcePaths)
    sOut,            \* SpecSearch: the call's state and result
    hIn,             \* SpecHist: the raw history and the two configured limits
    hOut,            \* SpecHist: the call's state and result
    cIn,             \* SpecChunk: chunkText's arguments (text, chunkSize, overlap)
    cOut,            \* SpecChunk: the call's position, window start and chunks
    rIn,             \* SpecRelay: the streaming request and what the provider will do
    rel,             \* SpecRelay: the streaming handler's position, locals and response
    cfg,             \* SpecSettings: settings.json, the module state of settings.js and
                     \* of resolveProvider, and the calls in flight
    emb,             \* SpecEmbedder: embedderPipeline and the getEmbedder calls in flight
    ui,              \* SpecPage: the settings page's controls and rebuildIndex's position
    sse              \* SpecClient: the response bytes, the reads and the chat page's locals

vars == <<ingestProgress, run, docs, file, resp, lastWrite, latest, stable,
          sIn, sOut, hIn, hOut, cIn, cOut, rIn, rel, cfg, emb, ui, sse>>

ingestVars == <<ingestProgress, run, docs, file, resp, lastWrite, latest, stable>>
searchVars == <<sIn, sOut>>
histVars == <<hIn, hOut>>
chunkVars == <<cIn, cOut>>
relayVars == <<rIn, rel>>
sideVars == <<cfg, emb, ui, sse>>

-----------------------------------------------------------------------------
(* Bounds of the model *)

MaxRuns == 2      \* run slots: ingestion jobs that can be in flight together
WriteUnit == 4    \* tokens of index.json that one write step puts on disk

(* Program constants *)

DefaultDim == 384         \* dim of the empty default index
BuildYieldEveryN == 2     \* BUILD_YIELD_EVERY_N (env; 50 when unset)
EmbedYieldEveryN == 2     \* EMBED_YIELD_EVERY_N (env; 5 when unset)
TxtChunkSize == 2         \* TXT_CHUNK_SIZE (env; 600 when unset)
TxtChunkOverlap == 1      \* TXT_CHUNK_OVERLAP (env; 80 when unset)

Min(a, b) == IF a <= b THEN a ELSE b
Max(a, b) == IF a >= b THEN a ELSE b

-----------------------------------------------------------------------------
(* Paths.  A path is its sequence of segments; an absolute path starts with *)
(* the root segment "/".                                                    *)

Cwd == <<"/", "app">>

RECURSIVE NormalizeSegs(_, _)
NormalizeSegs(segs, acc) ==
    IF segs = <<>> THEN acc
    ELSE LET s == Head(segs) IN
         IF s = "." THEN NormalizeSegs(Tail(segs), acc)
         ELSE IF s = ".."
              THEN NormalizeSegs(Tail(segs),
                                 IF Len(acc) > 1 THEN SubSeq(acc, 1, Len(acc) - 1) ELSE acc)
              ELSE NormalizeSegs(Tail(segs), Append(acc, s))

\* path.resolve(p): relative paths are taken from the working directory, then
\* "." and ".." segments are folded away.
PathResolve(p) ==
    LET full == IF p # <<>> /\ Head(p) = "/" THEN p ELSE Cwd \o p
    IN NormalizeSegs(Tail(full), <<"/">>)

PathA == <<"/", "app", "docs", "a.pdf">>
PathB == <<"/", "app", "docs", "b.txt">>

-----------------------------------------------------------------------------
(* The corpus.  A text is its word sequence (text.split(/\s+/)); a PDF file *)
(* carries its pages' texts, any other file its whole text.                 *)

FileA == [path |-> PathA, ext |-> "pdf",
          pages |-> << <<"alpha">>, <<>>, <<"beta", "beta">> >>, text |-> <<>>]
FileB == [path |-> PathB, ext |-> "txt",
          pages |-> <<>>, text |-> <<"alpha", "beta", "gamma">>]


\* mutant: pages numbered from 0
ExtractPdfPagesFromZero(f) ==
    [i \in 1..Len(f.pages) |-> [pageNumber |-> i - 1, text |-> f.pages[i]]]

\* extractPdfPages: pages numbered from 1 in document order
ExtractPdfPages(f) == [i \in 1..Len(f.pages) |-> [pageNumber |-> i, text |-> f.pages[i]]]

\* chunkText: windows of chunkSize words, each starting overlap words before
\* the end of the previous one; the last window ends at the last word.
RECURSIVE ChunkFrom(_, _, _, _)
ChunkFrom(words, start, chunkSize, overlap) ==
    IF start >= Len(words) THEN <<>>
    ELSE LET end == Min(Len(words), start + chunkSize)
             piece == SubSeq(words, start + 1, end)
         IN IF end = Len(words) THEN <<piece>>
            ELSE <<piece>> \o ChunkFrom(words, Max(0, end - overlap), chunkSize, overlap)

ChunkText(words, chunkSize, overlap) ==
    IF words = <<>> THEN <<>> ELSE ChunkFrom(words, 0, chunkSize, overlap)

\* The units buildCorpusChunks walks for one file: a PDF's pages, or the
\* pieces of chunkText with no page number (null, written 0).
FileUnits(f) ==
    IF f.ext = "pdf" THEN ExtractPdfPages(f)
    ELSE LET pieces == ChunkText(f.text, TxtChunkSize, TxtChunkOverlap)
         IN [i \in 1..Len(pieces) |-> [pageNumber |-> 0, text |-> pieces[i]]]

RECURSIVE EstimateCorpusChunks(_)
EstimateCorpusChunks(files) ==
    IF files = <<>> THEN 0
    ELSE (IF Head(files).ext = "pdf" THEN Len(ExtractPdfPages(Head(files)))
          ELSE Len(ChunkText(Head(files).text, TxtChunkSize, TxtChunkOverlap)))
         + EstimateCorpusChunks(Tail(files))

-----------------------------------------------------------------------------
(* The embedder (external): a deterministic map from a text to a vector.   *)
(* Here a two-dimensional count of the words "alpha" and "beta".           *)

CountWord(words, w) == Cardinality({i \in 1..Len(words) : words[i] = w})
Embed(words) == <<CountWord(words, "alpha"), CountWord(words, "beta")>>

\* mutant: item i takes the vector of the next chunk
MakeItemShifted(c, embeddings, i, dim) ==
    [vector |-> IF i + 1 <= Len(embeddings) THEN embeddings[i + 1] ELSE [j \in 1..dim |-> 0],
     text |-> c.text, sourcePath |-> c.sourcePath, pageNumber |-> c.pageNumber,
     chunkId |-> c.chunkId, tokenCount |-> c.tokenCount]

MakeItem(c, embeddings, i, dim) ==
    [vector |-> IF i <= Len(embeddings) THEN embeddings[i] ELSE [j \in 1..dim |-> 0],
     text |-> c.text, sourcePath |-> c.sourcePath, pageNumber |-> c.pageNumber,
     chunkId |-> c.chunkId, tokenCount |-> c.tokenCount]

BuildIndex(chunks, embeddings) ==
    LET dim == IF Len(embeddings) > 0 THEN Len(embeddings[1]) ELSE DefaultDim
    IN [dim |-> dim,
        items |-> [i \in 1..Len(chunks) |-> MakeItem(chunks[i], embeddings, i, dim)]]

-----------------------------------------------------------------------------
(* The Index Store: one JSON file, written in place.                        *)

DefaultIndex == [dim |-> DefaultDim, items |-> <<>>]

\* mutant: the items are written last first
StringifyReversed(index) ==
    <<[t |-> "open"], [t |-> "dim", v |-> index.dim]>>
    \o [i \in 1..Len(index.items) |->
          [t |-> "item", v |-> index.items[Len(index.items) + 1 - i]]]
    \o <<[t |-> "close"]>>

\* JSON.stringify(index): the document as a token sequence
Stringify(index) ==
    <<[t |-> "open"], [t |-> "dim", v |-> index.dim]>>
    \o [i \in 1..Len(index.items) |-> [t |-> "item", v |-> index.items[i]]]
    \o <<[t |-> "close"]>>

\* JSON.parse succeeds only on a complete document
WellFormed(data) ==
    /\ Len(data) >= 3
    /\ data[1].t = "open"
    /\ data[2].t = "dim"
    /\ data[Len(data)].t = "close"
    /\ \A i \in 3..(Len(data) - 1) : data[i].t = "item"

JsonParse(data) ==
    [dim |-> data[2].v, items |-> [i \in 1..(Len(data) - 3) |-> data[i + 2].v]]

\* loadIndex: a missing file and an unparsable one both end in the catch
LoadIndex(f) ==
    IF f.exists /\ WellFormed(f.data) THEN JsonParse(f.data) ELSE DefaultIndex

\* a write of toks at position pos (from 1) through a file descriptor of its
\* own: bytes beyond the current end leave a hole of NULs
WriteAt(data, pos, toks) ==
    LET newLen == Max(Len(data), pos - 1 + Len(toks))
    IN [i \in 1..newLen |->
          IF i >= pos /\ i < pos + Len(toks) THEN toks[i - pos + 1]
          ELSE IF i <= Len(data) THEN data[i]
          ELSE [t |-> "nul"]]

-----------------------------------------------------------------------------
(* buildCorpusChunks *)

\* mutant: the loop over a file's units never yields
RECURSIVE WalkUnitsNoYield(_, _, _, _)
WalkUnitsNoYield(units, j, chunks, path) ==
    IF j > Len(units) THEN [chunks |-> chunks, j |-> j, yielded |-> FALSE]
    ELSE IF units[j].text = <<>> THEN WalkUnitsNoYield(units, j + 1, chunks, path)
    ELSE WalkUnitsNoYield(units, j + 1,
            Append(chunks, [text |-> units[j].text, sourcePath |-> path,
                            pageNumber |-> units[j].pageNumber, chunkId |-> Len(chunks),
                            tokenCount |-> Len(units[j].text)]), path)

\* mutant: a PDF page's chunk takes its id from the page index
MakeChunkPageId(u, path, chunkId) ==
    [text |-> u.text, sourcePath |-> path, pageNumber |-> u.pageNumber,
     chunkId |-> IF u.pageNumber > 0 THEN u.pageNumber - 1 ELSE chunkId,
     tokenCount |-> Len(u.text)]

MakeChunk(u, path, chunkId) ==
    [text |-> u.text, sourcePath |-> path, pageNumber |-> u.pageNumber,
     chunkId |-> chunkId, tokenCount |-> Len(u.text)]

\* The loop body over one file's units from unit j on, up to the next yield to
\* the event loop (every BuildYieldEveryN chunks) or the end of the file.
\* Units with no text are skipped; chunkId is the number of chunks so far.
RECURSIVE WalkUnits(_, _, _, _)
WalkUnits(units, j, chunks, path) ==
    IF j > Len(units) THEN [chunks |-> chunks, j |-> j, yielded |-> FALSE]
    ELSE IF units[j].text = <<>> THEN WalkUnits(units, j + 1, chunks, path)
    ELSE LET cs == Append(chunks, MakeChunk(units[j], path, Len(chunks)))
         IN IF BuildYieldEveryN > 0 /\ Len(cs) % BuildYieldEveryN = 0
            THEN [chunks |-> cs, j |-> j + 1, yielded |-> TRUE]
            ELSE WalkUnits(units, j + 1, cs, path)

\* The chunks of a whole corpus, as one run over unchanged files returns them
RECURSIVE CorpusChunks(_, _)
CorpusChunks(files, chunks) ==
    IF files = <<>> THEN chunks
    ELSE LET f == Head(files)
             units == FileUnits(f)
             kept == SelectSeq(units, LAMBDA u : u.text # <<>>)
         IN CorpusChunks(Tail(files),
               chunks \o [i \in 1..Len(kept) |-> MakeChunk(kept[i], f.path, Len(chunks) + i - 1)])

EmbedTexts(texts) == [i \in 1..Len(texts) |-> Embed(texts[i])]

\* buildAndSaveIndex's value for a corpus
IndexOf(files) ==
    LET chunks == CorpusChunks(files, <<>>)
    IN BuildIndex(chunks, EmbedTexts([i \in 1..Len(chunks) |-> chunks[i].text]))

-----------------------------------------------------------------------------
(* The ingestion job of POST /api/ingest/start *)

Runs == 1..MaxRuns

Progress(stage, processed, total, error) ==
    [stage |-> stage, processed |-> processed, total |-> total, error |-> error]

\* before (history): the Index that was persisted when the run was started
FreshRun == [pc |-> "idle", files |-> <<>>, fi |-> 0, pj |-> 0, chunks |-> <<>>,
             embeddings |-> <<>>, idx |-> DefaultIndex, wpos |-> 0, before |-> DefaultIndex]

NoResp == [kind |-> "none"]

Free(r) == run[r].pc \in {"idle", "finished", "failed"}
InFlight == {r \in Runs : ~Free(r)}
Writing == {r \in Runs : run[r].pc = "write"}

\* a write of the progress record made by run r's job (not by the handler)
JobWrite(r, p) ==
    /\ ingestProgress' = p
    /\ lastWrite' = [run |-> r, by |-> "job"]

\* POST /api/ingest/start: reset the record, answer, kick off the job, which
\* runs up to its first await (estimateCorpusChunks).  The job takes the
\* lowest free slot.
Start(r) ==
    /\ Free(r)
    /\ \A q \in Runs : q < r => ~Free(q)
    /\ ingestProgress' = Progress("scanning", 0, 0, "")
    /\ lastWrite' = [run |-> r, by |-> "start"]
    /\ latest' = r
    /\ run' = [run EXCEPT ![r] = [FreshRun EXCEPT !.pc = "estimate",
                                                  !.before = LoadIndex(file)]]
    /\ resp' = [kind |-> "start", success |-> TRUE]
    /\ UNCHANGED <<docs, file, stable,
                 sIn, sOut, hIn, hOut, cIn, cOut, rIn, rel, sideVars>>

\* the estimate returns; buildCorpusChunks starts and awaits listDocFiles
Estimate(r) ==
    /\ run[r].pc = "estimate"
    /\ JobWrite(r, Progress("chunking", 0, EstimateCorpusChunks(docs), ""))
    /\ run' = [run EXCEPT ![r].pc = "list"]
    /\ resp' = NoResp
    /\ UNCHANGED <<docs, file, latest, stable,
                 sIn, sOut, hIn, hOut, cIn, cOut, rIn, rel, sideVars>>

\* the estimate throws: caught, total 0
EstimateFail(r) ==
    /\ run[r].pc = "estimate"
    /\ JobWrite(r, Progress("chunking", 0, 0, ""))
    /\ run' = [run EXCEPT ![r].pc = "list"]
    /\ resp' = NoResp
    /\ UNCHANGED <<docs, file, latest, stable,
                 sIn, sOut, hIn, hOut, cIn, cOut, rIn, rel, sideVars>>

\* mutant: processed is carried over from the chunking stage
EnterEmbeddingKeep(r, rec) ==
    /\ JobWrite(r, Progress("embedding", ingestProgress.processed, Len(rec.chunks), ""))
    /\ run' = [run EXCEPT ![r] = [rec EXCEPT !.pc = "embedder"]]

\* buildCorpusChunks has returned: stage embedding, embedTexts awaits getEmbedder
EnterEmbedding(r, rec) ==
    /\ JobWrite(r, Progress("embedding", 0, Len(rec.chunks), ""))
    /\ run' = [run EXCEPT ![r] = [rec EXCEPT !.pc = "embedder"]]

\* listDocFiles returns; the loop awaits the first file's extraction
List(r) ==
    /\ run[r].pc = "list"
    /\ IF docs = <<>>
       THEN EnterEmbedding(r, [run[r] EXCEPT !.files = docs])
       ELSE /\ run' = [run EXCEPT ![r] = [@ EXCEPT !.pc = "extract", !.files = docs,
                                                    !.fi = 1, !.pj = 1]]
            /\ UNCHANGED <<ingestProgress, lastWrite>>
    /\ resp' = NoResp
    /\ UNCHANGED <<docs, file, latest, stable,
                 sIn, sOut, hIn, hOut, cIn, cOut, rIn, rel, sideVars>>

\* One synchronous stretch of the chunking loop: after a file's extraction
\* returned, or after a yield.  onProgress overwrites the record once per
\* chunk, keeping whatever total the record holds.
ChunkStep(r) ==
    /\ run[r].pc \in {"extract", "yield"}
    /\ LET f == run[r].files[run[r].fi]
           w == WalkUnits(FileUnits(f), run[r].pj, run[r].chunks, f.path)
           rec == [run[r] EXCEPT !.chunks = w.chunks, !.pj = w.j]
       IN /\ run[r].pc = "extract" => \E k \in 1..Len(docs) : docs[k] = f
          /\ IF w.yielded
             THEN /\ JobWrite(r, Progress("chunking", Len(w.chunks), ingestProgress.total, ""))
                  /\ run' = [run EXCEPT ![r] = [rec EXCEPT !.pc = "yield"]]
             ELSE IF run[r].fi < Len(run[r].files)
             THEN /\ IF Len(w.chunks) > Len(run[r].chunks)
                     THEN JobWrite(r, Progress("chunking", Len(w.chunks),
                                               ingestProgress.total, ""))
                     ELSE UNCHANGED <<ingestProgress, lastWrite>>
                  /\ run' = [run EXCEPT ![r] = [rec EXCEPT !.pc = "extract",
                                                           !.fi = @ + 1, !.pj = 1]]
             ELSE EnterEmbedding(r, rec)
    /\ resp' = NoResp
    /\ UNCHANGED <<docs, file, latest, stable,
                 sIn, sOut, hIn, hOut, cIn, cOut, rIn, rel, sideVars>>

\* getEmbedder returns; with no texts embedTexts returns at once and
\* saveIndex awaits ensureDirs
GetEmbedder(r) ==
    /\ run[r].pc = "embedder"
    /\ run' = [run EXCEPT ![r] =
                 IF run[r].chunks = <<>>
                 THEN [@ EXCEPT !.pc = "save", !.idx = BuildIndex(<<>>, <<>>)]
                 ELSE [@ EXCEPT !.pc = "embed"]]
    /\ resp' = NoResp
    /\ UNCHANGED <<ingestProgress, docs, file, lastWrite, latest, stable,
                 sIn, sOut, hIn, hOut, cIn, cOut, rIn, rel, sideVars>>

\* embedTexts goes on after item i: the next extractor call, or, after the
\* last item, the items are assembled and saveIndex awaits ensureDirs
AfterItem(rec) ==
    IF Len(rec.embeddings) = Len(rec.chunks)
    THEN [rec EXCEPT !.pc = "save", !.idx = BuildIndex(rec.chunks, rec.embeddings)]
    ELSE [rec EXCEPT !.pc = "embed"]

\* the extractor returns the next text's vector; onProgress; every
\* EmbedYieldEveryN items the loop yields to the event loop (setTimeout 0)
EmbedStep(r) ==
    /\ run[r].pc = "embed"
    /\ LET i == Len(run[r].embeddings) + 1
           es == Append(run[r].embeddings, Embed(run[r].chunks[i].text))
           rec == [run[r] EXCEPT !.embeddings = es]
       IN /\ JobWrite(r, Progress("embedding", i, Len(run[r].chunks), ""))
          /\ run' = [run EXCEPT ![r] =
                       IF EmbedYieldEveryN > 0 /\ i % EmbedYieldEveryN = 0
                       THEN [rec EXCEPT !.pc = "pause"]
                       ELSE AfterItem(rec)]
    /\ resp' = NoResp
    /\ UNCHANGED <<docs, file, latest, stable,
                 sIn, sOut, hIn, hOut, cIn, cOut, rIn, rel, sideVars>>

\* the timer of the yield fires
EmbedResume(r) ==
    /\ run[r].pc = "pause"
    /\ run' = [run EXCEPT ![r] = AfterItem(@)]
    /\ resp' = NoResp
    /\ UNCHANGED <<ingestProgress, docs, file, lastWrite, latest, stable,
                 sIn, sOut, hIn, hOut, cIn, cOut, rIn, rel, sideVars>>

\* fs.writeFile opens index.json for writing, which truncates it
SaveOpen(r) ==
    /\ run[r].pc = "save"
    /\ file' = [exists |-> TRUE, data |-> <<>>]
    /\ run' = [run EXCEPT ![r] = [@ EXCEPT !.pc = "write", !.wpos = 1]]
    /\ resp' = NoResp
    /\ UNCHANGED <<ingestProgress, docs, lastWrite, latest, stable,
                 sIn, sOut, hIn, hOut, cIn, cOut, rIn, rel, sideVars>>

\* fs.writeFile puts the next part of the document on disk, at the offset of
\* its own descriptor; the write is complete with the last part
SaveWrite(r) ==
    /\ run[r].pc = "write"
    /\ LET toks == Stringify(run[r].idx)
           left == Len(toks) - run[r].wpos + 1
           n == Min(WriteUnit, left)
       IN /\ file' = [file EXCEPT !.data =
                        WriteAt(@, run[r].wpos, SubSeq(toks, run[r].wpos, run[r].wpos + n - 1))]
          /\ run' = [run EXCEPT ![r] = [@ EXCEPT !.wpos = @ + n,
                                                !.pc = IF n = left THEN "closing" ELSE "write"]]
          /\ stable' = IF n = left THEN run[r].idx ELSE stable
    /\ resp' = NoResp
    /\ UNCHANGED <<ingestProgress, docs, lastWrite, latest,
                 sIn, sOut, hIn, hOut, cIn, cOut, rIn, rel, sideVars>>

\* a job that has ended keeps nothing but how it ended
Ended(rec, how) == [FreshRun EXCEPT !.pc = how]

\* saveIndex returns: stage done
SaveDone(r) ==
    /\ run[r].pc = "closing"
    /\ JobWrite(r, Progress("done", Len(run[r].idx.items), Len(run[r].idx.items), ""))
    /\ run' = [run EXCEPT ![r] = Ended(@, "finished")]
    /\ resp' = NoResp
    /\ UNCHANGED <<docs, file, latest, stable,
                 sIn, sOut, hIn, hOut, cIn, cOut, rIn, rel, sideVars>>

\* an await of the job rejects (listing or extraction, the embedder, the
\* directory, the write): the catch records the error
Fail(r) ==
    /\ run[r].pc \in {"list", "extract", "embedder", "embed", "save", "write"}
    /\ JobWrite(r, Progress("error", 0, 0, "Error"))
    /\ run' = [run EXCEPT ![r] = Ended(@, "failed")]
    /\ resp' = NoResp
    /\ UNCHANGED <<docs, file, latest, stable,
                 sIn, sOut, hIn, hOut, cIn, cOut, rIn, rel, sideVars>>

\* GET /api/ingest/status
Poll ==
    /\ resp' = [kind |-> "status", success |-> TRUE, data |-> ingestProgress]
    /\ UNCHANGED <<ingestProgress, run, docs, file, lastWrite, latest, stable,
                 sIn, sOut, hIn, hOut, cIn, cOut, rIn, rel, sideVars>>

\* a query's loadIndex (searchIndex's first step): one read of the file
Query ==
    /\ resp' = [kind |-> "load", index |-> LoadIndex(file)]
    /\ UNCHANGED <<ingestProgress, run, docs, file, lastWrite, latest, stable,
                 sIn, sOut, hIn, hOut, cIn, cOut, rIn, rel, sideVars>>

\* POST /api/documents/upload and DELETE /api/documents/:filename
Upload ==
    /\ docs = <<FileA>>
    /\ docs' = <<FileA, FileB>>
    /\ resp' = [kind |-> "upload", success |-> TRUE]
    /\ UNCHANGED <<ingestProgress, run, file, lastWrite, latest, stable,
                 sIn, sOut, hIn, hOut, cIn, cOut, rIn, rel, sideVars>>

Delete ==
    /\ docs = <<FileA, FileB>>
    /\ docs' = <<FileA>>
    /\ resp' = [kind |-> "delete", success |-> TRUE]
    /\ UNCHANGED <<ingestProgress, run, file, lastWrite, latest, stable,
                 sIn, sOut, hIn, hOut, cIn, cOut, rIn, rel, sideVars>>

NoSearch == [pc |-> "off"]
NoHist == [pc |-> "off"]
NoChunk == [pc |-> "off"]
NoRelay == [pc |-> "off"]
NoSide == [pc |-> "off"]
SideOff == cfg = NoSide /\ emb = NoSide /\ ui = NoSide /\ sse = NoSide

Init ==
    /\ ingestProgress = Progress("idle", 0, 0, "")
    /\ run = [r \in Runs |-> FreshRun]
    /\ docs = <<FileA>>
    /\ file \in {[exists |-> FALSE, data |-> <<>>],
                 [exists |-> TRUE, data |-> Stringify(IndexOf(<<FileA>>))]}
    /\ resp = NoResp
    /\ stable = LoadIndex(file)
    /\ lastWrite = [run |-> 0, by |-> "init"]
    /\ latest = 0
    /\ sIn = NoSearch /\ sOut = NoSearch
    /\ hIn = NoHist /\ hOut = NoHist
    /\ cIn = NoChunk /\ cOut = NoChunk
    /\ SideOff
    /\ rIn = NoRelay /\ rel = NoRelay

Next ==
    \/ \E r \in Runs : Start(r)
    \/ \E r \in Runs : Estimate(r)
    \/ \E r \in Runs : EstimateFail(r)
    \/ \E r \in Runs : List(r)
    \/ \E r \in Runs : ChunkStep(r)
    \/ \E r \in Runs : GetEmbedder(r)
    \/ \E r \in Runs : EmbedStep(r)
    \/ \E r \in Runs : EmbedResume(r)
    \/ \E r \in Runs : SaveOpen(r)
    \/ \E r \in Runs : SaveWrite(r)
    \/ \E r \in Runs : SaveDone(r)
    \/ \E r \in Runs : Fail(r)
    \/ Poll
    \/ Query
    \/ Upload
    \/ Delete

Spec == Init /\ [][Next]_vars

\* SpecRun: the same endpoints with one ingestion job at a time (a start is
\* made only when no job is in flight), for what one run does by itself
NextRun ==
    \/ Start(1)
    \/ Estimate(1)
    \/ EstimateFail(1)
    \/ List(1)
    \/ ChunkStep(1)
    \/ GetEmbedder(1)
    \/ EmbedStep(1)
    \/ EmbedResume(1)
    \/ SaveOpen(1)
    \/ SaveWrite(1)
    \/ SaveDone(1)
    \/ Fail(1)
    \/ Poll
    \/ Query
    \/ Upload
    \/ Delete

SpecRun == Init /\ [][NextRun]_vars

-----------------------------------------------------------------------------
(* Claims about the ingestion endpoints and the Index Store (under Spec) *)

NonTerminal == {"scanning", "chunking", "embedding"}

\* C1: a query's loadIndex that runs while a rebuild's saveIndex is writing
\* returns the complete pre-rebuild Index (that of the last completed save)
\* or the complete Index a save in progress is writing, and nothing else.
C1_ReadsPreOrPost ==
    resp.kind = "load" =>
        resp.index \in {stable} \cup {run[r].idx : r \in Writing}

\* C2: a start call made while the stage is scanning, chunking or embedding
\* is rejected and leaves the progress record and the jobs unchanged, and at
\* most one ingestion job is ever in flight.
C2_StartRejectedWhileRunning ==
    /\ [][(ingestProgress.stage \in NonTerminal /\ resp'.kind = "start")
            => (/\ resp'.success = FALSE
                /\ ingestProgress' = ingestProgress
                /\ run' = run)]_vars
    /\ [](Cardinality(InFlight) <= 1)

\* C3: when a step of a run throws, the run ends with stage error carrying
\* the error text, and the persisted Index is the one from before the run
\* started.
C3_FailureLeavesIndex ==
    [][\A r \in Runs :
         (run[r].pc # "failed" /\ run'[r].pc = "failed")
            => (/\ ingestProgress'.stage = "error"
                /\ ingestProgress'.error # ""
                /\ LoadIndex(file') = run[r].before)]_vars

\* C4: every change of the stage is idle->scanning, scanning->chunking,
\* chunking->embedding, embedding->done, any->error, or a start call
\* resetting it to scanning.
StageOrder(a, b) ==
    \/ a = "idle" /\ b = "scanning"
    \/ a = "scanning" /\ b = "chunking"
    \/ a = "chunking" /\ b = "embedding"
    \/ a = "embedding" /\ b = "done"
    \/ b = "error"

C4_StageTransitions ==
    [][ingestProgress'.stage # ingestProgress.stage
         => \/ StageOrder(ingestProgress.stage, ingestProgress'.stage)
            \/ ingestProgress'.stage = "scanning" /\ lastWrite'.by = "start"]_vars

\* C5: whenever a status poll observes stage done, the Index of that run is
\* on disk and processed = total = the number of items of the persisted Index.
C5_DoneMeansPersisted ==
    (resp.kind = "status" /\ resp.data.stage = "done") =>
        /\ file.exists /\ WellFormed(file.data)
        /\ resp.data.processed = resp.data.total
        /\ resp.data.processed = Len(LoadIndex(file).items)

\* C6: the progress record is written only by the most recently started run.
C6_OnlyLatestRunWrites ==
    lastWrite.run = latest

-----------------------------------------------------------------------------
(* Similarity search: cosineSimilarity and searchIndex *)

Dot(a, b, n) ==
    LET RECURSIVE Sum(_)
        Sum(i) == IF i > n THEN 0 ELSE a[i] * b[i] + Sum(i + 1)
    IN Sum(1)

\* cosineSimilarity(a, b) = dot / (sqrt(na) * sqrt(nb)), or 0 when a norm is
\* 0.  The loop runs over a's indices: of a longer b only the first Len(a)
\* entries are read, and a shorter b yields undefined entries, which make dot
\* and nb NaN (na stays a number).  The score is kept exactly, as the pair
\* (dot, na * nb) that stands for dot / sqrt(na * nb); NaN is the pair (0, 0).
NaN == [dot |-> 0, nn |-> 0]

CosineSimilarity(a, b) ==
    LET n == Min(Len(a), Len(b))
        dot == Dot(a, b, n)
        na == Dot(a, a, Len(a))
        nb == Dot(b, b, n)
    IN IF na = 0 THEN [dot |-> 0, nn |-> 1]
       ELSE IF Len(a) > Len(b) THEN NaN
       ELSE IF nb = 0 THEN [dot |-> 0, nn |-> 1]
       ELSE [dot |-> dot, nn |-> na * nb]

\* the order of two scores: x / sqrt(m) < y / sqrt(n) iff
\* sgn(x) * x^2 * n < sgn(y) * y^2 * m
Sq(x) == IF x >= 0 THEN x * x ELSE 0 - x * x
ScoreLess(s, t) == Sq(s.dot) * t.nn < Sq(t.dot) * s.nn
ScoreEq(s, t) == Sq(s.dot) * t.nn = Sq(t.dot) * s.nn

\* scored.sort((a, b) => b.score - a.score): Array.prototype.sort is stable,
\* so an element goes behind every element whose score is not lower
RECURSIVE InsertDesc(_, _)
InsertDesc(sorted, x) ==
    IF sorted = <<>> THEN <<x>>
    ELSE IF ScoreLess(Head(sorted).score, x.score) THEN <<x>> \o sorted
    ELSE <<Head(sorted)>> \o InsertDesc(Tail(sorted), x)

RECURSIVE SortAcc(_, _)
SortAcc(seq, acc) ==
    IF seq = <<>> THEN acc ELSE SortAcc(Tail(seq), InsertDesc(acc, Head(seq)))

\* mutant: the comparator the wrong way round (a.score - b.score)
RECURSIVE InsertAsc(_, _)
InsertAsc(sorted, x) ==
    IF sorted = <<>> THEN <<x>>
    ELSE IF ScoreLess(x.score, Head(sorted).score) THEN <<x>> \o sorted
    ELSE <<Head(sorted)>> \o InsertAsc(Tail(sorted), x)

RECURSIVE SortAccAsc(_, _)
SortAccAsc(seq, acc) ==
    IF seq = <<>> THEN acc ELSE SortAccAsc(Tail(seq), InsertAsc(acc, Head(seq)))

SortByScoreAsc(scored) == SortAccAsc(scored, <<>>)

SortByScoreDesc(scored) == SortAcc(scored, <<>>)

\* the allow-list: null unless an array with elements, else the set of the
\* resolved paths
AllowOn(allowed) == allowed.isArray /\ Len(allowed.paths) > 0
AllowSet(allowed) == {PathResolve(allowed.paths[i]) : i \in 1..Len(allowed.paths)}

\* mutant: an allow-list that matches nothing falls back to the whole index
CandidatesFallback(items, allowed) ==
    LET kept == SelectSeq(items, LAMBDA it : PathResolve(it.sourcePath) \in AllowSet(allowed))
    IN IF AllowOn(allowed) /\ kept # <<>> THEN kept ELSE items

Candidates(items, allowed) ==
    IF AllowOn(allowed)
    THEN SelectSeq(items, LAMBDA it : PathResolve(it.sourcePath) \in AllowSet(allowed))
    ELSE items

\* scored.slice(0, Math.min(k, scored.length))
TopK(sorted, k) == SubSeq(sorted, 1, Min(k, Len(sorted)))

\* searchIndex(query, k, allowedSourcePaths), from the index loadIndex
\* returned and the query's vector
SearchIndex(index, qvec, k, allowed) ==
    IF Len(index.items) = 0 THEN <<>>
    ELSE LET candidates == Candidates(index.items, allowed)
         IN IF Len(candidates) = 0 THEN <<>>
            ELSE LET scored == [i \in 1..Len(candidates) |->
                                  [item |-> candidates[i],
                                   score |-> CosineSimilarity(qvec, candidates[i].vector)]]
                 IN TopK(SortByScoreDesc(scored), k)

-----------------------------------------------------------------------------
(* SpecSearch: one searchIndex call on a bounded index, query, k, allow-list *)

MaxItems == 3     \* items in the index
MaxK == 3         \* largest k asked for

PathC == <<"/", "app", "docs", "c.md">>
RelA == <<".", "docs", "a.pdf">>
DotA == <<"/", "app", "docs", "..", "docs", "a.pdf">>

SearchVectors == { <<1, 0>>, <<-1, 1>>, <<0, 0>> }
SearchPaths == {PathA, PathB}
SearchQueries == { <<"alpha">>, <<"alpha", "beta">>, <<"gamma">> }

NoAllow == [isArray |-> FALSE, paths |-> <<>>]
AllowLists == {NoAllow} \cup
              {[isArray |-> TRUE, paths |-> ps] :
                  ps \in { <<>>, <<PathA>>, <<RelA>>, <<DotA>>, <<PathC>> }}

\* the items of an index as a build leaves them: absolute source paths from
\* listDocFiles, chunk ids in order from 0
SearchItem(path, vector, i) ==
    [vector |-> vector, text |-> <<"alpha">>, sourcePath |-> path, pageNumber |-> 0,
     chunkId |-> i - 1, tokenCount |-> 1]

SearchItemSeqs ==
    UNION {{[i \in 1..n |-> SearchItem(ps[i], vs[i], i)] :
              ps \in [1..n -> SearchPaths], vs \in [1..n -> SearchVectors]} :
           n \in 0..MaxItems}

IdleRuns == [r \in Runs |-> FreshRun]

\* index.json as a build with another embedding model left it: vectors of a
\* length (1 or 3) that is not the length of the query's vector (2)
OtherVectors == { <<1>>, <<-1>>, <<1, 0, 1>>, <<0, 1, 1>> }
OtherIndexes ==
    {[dim |-> Len(vw[1]), items |-> <<SearchItem(PathA, vw[1], 1), SearchItem(PathB, vw[2], 2)>>] :
        vw \in {p \in OtherVectors \X OtherVectors : Len(p[1]) = Len(p[2])}}

InitSearch ==
    /\ file \in {[exists |-> FALSE, data |-> <<>>]} \cup
                {[exists |-> TRUE, data |-> Stringify([dim |-> 2, items |-> its])] :
                    its \in SearchItemSeqs} \cup
                {[exists |-> TRUE, data |-> Stringify(idx)] : idx \in OtherIndexes}
    /\ sIn \in [query : SearchQueries, k : 0..MaxK, allowed : AllowLists]
    /\ sOut = [pc |-> "ready", result |-> <<>>]
    /\ ingestProgress = Progress("idle", 0, 0, "")
    /\ run = IdleRuns
    /\ docs = <<>>
    /\ resp = NoResp
    /\ stable = LoadIndex(file)
    /\ lastWrite = [run |-> 0, by |-> "init"]
    /\ latest = 0
    /\ hIn = NoHist /\ hOut = NoHist
    /\ cIn = NoChunk /\ cOut = NoChunk
    /\ SideOff
    /\ rIn = NoRelay /\ rel = NoRelay

\* searchIndex: loadIndex, embed the query, filter, score, sort, slice
Search ==
    /\ sOut.pc = "ready"
    /\ sOut' = [pc |-> "done",
                result |-> SearchIndex(LoadIndex(file), Embed(sIn.query), sIn.k, sIn.allowed)]
    /\ UNCHANGED <<ingestVars, sIn, histVars, chunkVars, relayVars, sideVars>>

NextSearch == Search

SpecSearch == InitSearch /\ [][NextSearch]_vars

SearchDone == sOut.pc = "done"
IndexedItems == LoadIndex(file).items
Returned(i) == sOut.result[i]

\* C7 (as amended): with a non-empty allow-list S, every returned item's
\* resolved sourcePath is the resolved form (path.resolve) of a member of S,
\* and when no indexed item's resolved sourcePath is, the result is empty.
C7_AllowListResolved ==
    (SearchDone /\ sIn.allowed.isArray /\ sIn.allowed.paths # <<>>) =>
        LET S == {PathResolve(sIn.allowed.paths[i]) : i \in 1..Len(sIn.allowed.paths)}
        IN /\ \A i \in 1..Len(sOut.result) : PathResolve(Returned(i).item.sourcePath) \in S
           /\ (\A j \in 1..Len(IndexedItems) : PathResolve(IndexedItems[j].sourcePath) \notin S)
                 => sOut.result = <<>>

\* C7 witness: an allow-list let some indexed items through and held others back
C7_Witness ==
    /\ SearchDone /\ sIn.allowed.isArray /\ sIn.allowed.paths # <<>>
    /\ sOut.result # <<>>
    /\ sIn.k >= Len(IndexedItems)
    /\ Len(sOut.result) < Len(IndexedItems)

\* C7 as stated: every returned item has its sourcePath in S itself, and when
\* no indexed item has its sourcePath in S the result is empty.
C7_AllowListLiteral ==
    (SearchDone /\ sIn.allowed.isArray /\ sIn.allowed.paths # <<>>) =>
        LET S == {sIn.allowed.paths[i] : i \in 1..Len(sIn.allowed.paths)}
        IN /\ \A i \in 1..Len(sOut.result) : Returned(i).item.sourcePath \in S
           /\ (\A j \in 1..Len(IndexedItems) : IndexedItems[j].sourcePath \notin S)
                 => sOut.result = <<>>

\* C8: searchIndex returns exactly min(k, number of candidates) results, each
\* with the cosine score of its item, in non-increasing score order, and no
\* candidate left out scores strictly higher than a returned one.
C8_TopKByScore ==
    SearchDone =>
        LET cands == Candidates(IndexedItems, sIn.allowed)
            q == Embed(sIn.query)
            res == sOut.result
            ids == {res[i].item.chunkId : i \in 1..Len(res)}
        IN /\ Len(res) = Min(sIn.k, Len(cands))
           /\ Len(res) <= sIn.k
           /\ \A i \in 1..Len(res) :
                 /\ \E j \in 1..Len(cands) : cands[j] = res[i].item
                 /\ res[i].score = CosineSimilarity(q, res[i].item.vector)
           /\ \A i, j \in 1..Len(res) : i < j => ~ScoreLess(res[i].score, res[j].score)
           /\ \A j \in 1..Len(cands) : cands[j].chunkId \notin ids =>
                 \A i \in 1..Len(res) :
                    ~ScoreLess(res[i].score, CosineSimilarity(q, cands[j].vector))

\* C8 witness: k cut the candidates short and the sort moved a later,
\* higher-scoring item ahead of an earlier one
C8_Witness ==
    /\ SearchDone
    /\ Len(sOut.result) = sIn.k
    /\ sIn.k >= 2
    /\ sIn.k < Len(Candidates(IndexedItems, sIn.allowed))
    /\ ScoreLess(Returned(2).score, Returned(1).score)
    /\ Returned(1).item.chunkId > Returned(2).item.chunkId

\* C28: a search whose query vector differs in length from the stored dim
\* or from an item's vector returns no ranked result (it ends in an error).
C28_DimMismatchIsError ==
    LET index == LoadIndex(file)
        qvec == Embed(sIn.query)
    IN (/\ SearchDone
        /\ index.items # <<>>
        /\ \/ Len(qvec) # index.dim
           \/ \E i \in 1..Len(index.items) : Len(index.items[i].vector) # Len(qvec))
          => sOut.result = <<>>

-----------------------------------------------------------------------------
(* sanitizeHistory *)

DefaultHistoryMaxMessages == 12
DefaultHistoryCharBudget == 12000
MessageOverhead == 20

\* String.prototype.toLowerCase on the role strings used here
ToLowerCase(s) ==
    CASE s = "User" -> "user"
      [] s = "ASSISTANT" -> "assistant"
      [] OTHER -> s

\* Array.prototype.slice(start): a negative start counts from the end, and
\* -0 is 0
SliceFrom(seq, start) ==
    LET n == Len(seq)
        from == IF start < 0 THEN Max(n + start, 0) ELSE Min(start, n)
    IN SubSeq(seq, from + 1, n)

EntryRole(m) == ToLowerCase(m.role)
EntryContent(m) == IF m.content.isString THEN m.content.s ELSE ""

\* mutant: the emptiness test on content left out
KeepsAnyContent(m) ==
    /\ m.isObject
    /\ EntryRole(m) \in {"user", "assistant"}

\* the loop body's test: an object with an allowed role and non-empty content
Keeps(m) ==
    /\ m.isObject
    /\ EntryRole(m) \in {"user", "assistant"}
    /\ EntryContent(m) # ""

RECURSIVE Cleaned(_)
Cleaned(entries) ==
    IF entries = <<>> THEN <<>>
    ELSE LET m == Head(entries)
         IN (IF Keeps(m) THEN <<[role |-> EntryRole(m), content |-> EntryContent(m)]>>
             ELSE <<>>) \o Cleaned(Tail(entries))

\* the backward loop: result in push order (newest first)
RECURSIVE BudgetLoop(_, _, _, _, _)
BudgetLoop(trimmed, i, total, result, charBudget) ==
    IF i < 1 THEN result
    ELSE LET len == Len(trimmed[i].content) + MessageOverhead
         IN IF total + len > charBudget THEN result
            ELSE BudgetLoop(trimmed, i - 1, total + len, Append(result, trimmed[i]),
                            charBudget)

Reverse(seq) == [i \in 1..Len(seq) |-> seq[Len(seq) + 1 - i]]

SanitizeHistory(raw, maxMessages, charBudget) ==
    IF ~raw.isArray THEN <<>>
    ELSE LET trimmed == SliceFrom(Cleaned(raw.entries), -maxMessages)
         IN Reverse(BudgetLoop(trimmed, Len(trimmed), 0, <<>>, charBudget))

-----------------------------------------------------------------------------
(* SpecHist: one sanitizeHistory call on a bounded raw history and limits *)

MaxHist == 3      \* entries in the raw history

Str(s) == [isString |-> TRUE, s |-> s]
NotStr == [isString |-> FALSE, s |-> ""]

HistEntries ==
    { [isObject |-> FALSE, role |-> "", content |-> NotStr],
      [isObject |-> TRUE, role |-> "user", content |-> Str("a")],
      [isObject |-> TRUE, role |-> "assistant", content |-> Str("abc")],
      [isObject |-> TRUE, role |-> "ASSISTANT", content |-> Str("ab")],
      [isObject |-> TRUE, role |-> "system", content |-> Str("a")],
      [isObject |-> TRUE, role |-> "user", content |-> Str("")],
      [isObject |-> TRUE, role |-> "User", content |-> NotStr] }

RawHistories ==
    {[isArray |-> FALSE, entries |-> <<>>]} \cup
    {[isArray |-> TRUE, entries |-> es] :
        es \in UNION {[1..n -> HistEntries] : n \in 0..MaxHist}}

HistoryMaxValues == (0..MaxHist) \cup {DefaultHistoryMaxMessages}
HistoryBudgetValues == {21, 44, DefaultHistoryCharBudget}

InitHist ==
    /\ hIn \in [raw : RawHistories, maxMessages : HistoryMaxValues,
                charBudget : HistoryBudgetValues]
    /\ hOut = [pc |-> "ready", result |-> <<>>]
    /\ file = [exists |-> FALSE, data |-> <<>>]
    /\ ingestProgress = Progress("idle", 0, 0, "")
    /\ run = IdleRuns
    /\ docs = <<>>
    /\ resp = NoResp
    /\ stable = LoadIndex(file)
    /\ lastWrite = [run |-> 0, by |-> "init"]
    /\ latest = 0
    /\ sIn = NoSearch /\ sOut = NoSearch
    /\ cIn = NoChunk /\ cOut = NoChunk
    /\ SideOff
    /\ rIn = NoRelay /\ rel = NoRelay

Sanitize ==
    /\ hOut.pc = "ready"
    /\ hOut' = [pc |-> "done",
                result |-> SanitizeHistory(hIn.raw, hIn.maxMessages, hIn.charBudget)]
    /\ UNCHANGED <<ingestVars, searchVars, hIn, chunkVars, relayVars, sideVars>>

NextHist == Sanitize

SpecHist == InitHist /\ [][NextHist]_vars

HistDone == hOut.pc = "done"

\* the messages an entry list holds once roles are lower-cased, in order
RECURSIVE ValidMessages(_)
ValidMessages(entries) ==
    IF entries = <<>> THEN <<>>
    ELSE LET m == Head(entries)
             ok == /\ m.isObject
                   /\ ToLowerCase(m.role) \in {"user", "assistant"}
                   /\ m.content.isString /\ m.content.s # ""
         IN (IF ok THEN <<[role |-> ToLowerCase(m.role), content |-> m.content.s]>>
             ELSE <<>>) \o ValidMessages(Tail(entries))

\* the messages of the entries whose role is literally user or assistant
RECURSIVE LiteralMessages(_)
LiteralMessages(entries) ==
    IF entries = <<>> THEN <<>>
    ELSE LET m == Head(entries)
             ok == /\ m.isObject
                   /\ m.role \in {"user", "assistant"}
                   /\ m.content.isString /\ m.content.s # ""
         IN (IF ok THEN <<[role |-> m.role, content |-> m.content.s]>> ELSE <<>>)
            \o LiteralMessages(Tail(entries))

RECURSIVE Cost(_)
Cost(msgs) ==
    IF msgs = <<>> THEN 0 ELSE Len(Head(msgs).content) + 20 + Cost(Tail(msgs))

Suffix(seq, n) == SubSeq(seq, Len(seq) - n + 1, Len(seq))

LongestSuffix(valid, maxMessages, charBudget) ==
    LET fits == {n \in 0..Len(valid) :
                    n <= maxMessages /\ Cost(Suffix(valid, n)) <= charBudget}
    IN Suffix(valid, CHOOSE n \in fits : \A m \in fits : m <= n)

RECURSIVE IsSubseq(_, _)
IsSubseq(a, b) ==
    IF a = <<>> THEN TRUE
    ELSE IF b = <<>> THEN FALSE
    ELSE IF Head(a) = Head(b) THEN IsSubseq(Tail(a), Tail(b))
    ELSE IsSubseq(a, Tail(b))

\* C9: sanitizeHistory returns, in chronological order, exactly the longest
\* contiguous suffix of the valid messages with at most HISTORY_MAX_MESSAGES
\* entries and a sum of (content length + 20) within HISTORY_CHAR_BUDGET.
C9_LongestSuffix ==
    HistDone =>
        hOut.result = LongestSuffix(IF hIn.raw.isArray THEN ValidMessages(hIn.raw.entries)
                                    ELSE <<>>,
                                    hIn.maxMessages, hIn.charBudget)

\* C10 (as amended): every returned message has role exactly user or assistant
\* and non-empty string content; the returned messages are, in order, among
\* the entries that are objects whose role lower-cased is user or assistant
\* and whose content is a non-empty string; a non-array input yields <<>>.
C10_OnlyValidMessages ==
    HistDone =>
        /\ \A i \in 1..Len(hOut.result) :
              /\ hOut.result[i].role \in {"user", "assistant"}
              /\ Len(hOut.result[i].content) > 0
        /\ hIn.raw.isArray => IsSubseq(hOut.result, ValidMessages(hIn.raw.entries))
        /\ ~hIn.raw.isArray => hOut.result = <<>>

\* C10 witness: within the limits, an invalid entry was dropped and an entry
\* with an upper-case role came through lower-cased
C10_Witness ==
    /\ HistDone /\ hIn.raw.isArray
    /\ hIn.maxMessages >= Len(hIn.raw.entries)
    /\ hOut.result # <<>>
    /\ Len(hOut.result) = Len(ValidMessages(hIn.raw.entries))
    /\ Len(hOut.result) < Len(hIn.raw.entries)
    /\ \E i \in 1..Len(hIn.raw.entries) : hIn.raw.entries[i].role = "ASSISTANT"
    /\ \E i \in 1..Len(hOut.result) : hOut.result[i].content = "ab"

\* C10 as stated: as above, but an entry counts only when its role is
\* literally user or assistant.
C10_LiteralRoles ==
    HistDone =>
        /\ \A i \in 1..Len(hOut.result) :
              /\ hOut.result[i].role \in {"user", "assistant"}
              /\ Len(hOut.result[i].content) > 0
        /\ hIn.raw.isArray => IsSubseq(hOut.result, LiteralMessages(hIn.raw.entries))
        /\ ~hIn.raw.isArray => hOut.result = <<>>

-----------------------------------------------------------------------------
(* SpecChunk: one chunkText call, iteration by iteration, on a bounded text *)
(* and tunables.  A text is its sequence of characters; a word is a         *)
(* sequence of characters; a chunk (words joined by one space) is its       *)
(* sequence of words.                                                       *)

MaxText == 5      \* characters in the text
MaxSize == 3      \* largest chunkSize and overlap

TextChars == {"a", "b", " "}
Texts == UNION {[1..n -> TextChars] : n \in 0..MaxText}

\* text.split(/\s+/): the pieces between runs of whitespace, with an empty
\* piece before leading and after trailing whitespace
RECURSIVE SplitFrom(_, _, _, _)
SplitFrom(text, i, words, cur) ==
    IF i > Len(text) THEN Append(words, cur)
    ELSE IF text[i] # " " THEN SplitFrom(text, i + 1, words, Append(cur, text[i]))
    ELSE IF i > 1 /\ text[i - 1] = " " THEN SplitFrom(text, i + 1, words, cur)
    ELSE SplitFrom(text, i + 1, Append(words, cur), <<>>)

Split(text) == SplitFrom(text, 1, <<>>, <<>>)

\* chunks.push: the list grows by one chunk per iteration.  A call that
\* returns pushes at most one chunk per word, so chunks past that number are
\* pushed only by a call that never returns, and are not recorded.
Push(chunks, piece, words) ==
    IF Len(chunks) <= Len(words) THEN Append(chunks, piece) ELSE chunks

InitChunk ==
    /\ cIn \in [text : Texts, chunkSize : 0..MaxSize, overlap : 0..MaxSize]
    /\ cOut = [pc |-> "ready", words |-> <<>>, start |-> 0, chunks |-> <<>>,
               pushed |-> 0]
    /\ file = [exists |-> FALSE, data |-> <<>>]
    /\ ingestProgress = Progress("idle", 0, 0, "")
    /\ run = IdleRuns
    /\ docs = <<>>
    /\ resp = NoResp
    /\ stable = LoadIndex(file)
    /\ lastWrite = [run |-> 0, by |-> "init"]
    /\ latest = 0
    /\ sIn = NoSearch /\ sOut = NoSearch
    /\ hIn = NoHist /\ hOut = NoHist
    /\ rIn = NoRelay /\ rel = NoRelay
    /\ SideOff

\* if (!text) return []; words = text.split(/\s+/); start = 0
ChunkEnter ==
    /\ cOut.pc = "ready"
    /\ cOut' = IF cIn.text = <<>>
               THEN [cOut EXCEPT !.pc = "done"]
               ELSE [cOut EXCEPT !.pc = "loop", !.words = Split(cIn.text)]
    /\ UNCHANGED <<ingestVars, searchVars, histVars, cIn, relayVars, sideVars>>

\* one iteration of while (start < words.length); chunks grows without bound
\* when the loop does not end, so past Len(words) + 1 chunks only the parity
\* of chunks.length is kept (pushed)
ChunkIter ==
    /\ cOut.pc = "loop"
    /\ LET n == Len(cOut.words)
           end == Min(n, cOut.start + cIn.chunkSize)
           piece == SubSeq(cOut.words, cOut.start + 1, end)
       IN cOut' = IF cOut.start >= n
                  THEN [cOut EXCEPT !.pc = "done"]
                  ELSE IF end = n
                  THEN [cOut EXCEPT !.pc = "done",
                                    !.chunks = Push(cOut.chunks, piece, cOut.words),
                                    !.pushed = (cOut.pushed + 1) % 2]
                  ELSE [cOut EXCEPT !.start = Max(0, end - cIn.overlap),
                                    !.chunks = Push(cOut.chunks, piece, cOut.words),
                                    !.pushed = (cOut.pushed + 1) % 2]
    /\ UNCHANGED <<ingestVars, searchVars, histVars, cIn, relayVars, sideVars>>

NextChunk == ChunkEnter \/ ChunkIter

SpecChunk == InitChunk /\ [][NextChunk]_vars

\* the loop is synchronous code: once entered, it keeps running
SpecChunkFair == SpecChunk /\ WF_vars(NextChunk)

ChunkDone == cOut.pc = "done"

\* the words of a text: its maximal runs of non-blank characters, in order
RECURSIVE TextWords(_, _, _)
TextWords(text, i, cur) ==
    IF i > Len(text) THEN (IF cur = <<>> THEN <<>> ELSE <<cur>>)
    ELSE IF text[i] = " "
         THEN (IF cur = <<>> THEN <<>> ELSE <<cur>>) \o TextWords(text, i + 1, <<>>)
    ELSE TextWords(text, i + 1, Append(cur, text[i]))

\* chunks with the first overlap words of all but the first removed, joined
RECURSIVE Rejoin(_, _, _)
Rejoin(chunks, i, overlap) ==
    IF i > Len(chunks) THEN <<>>
    ELSE (IF i = 1 THEN chunks[i]
          ELSE SubSeq(chunks[i], Min(overlap, Len(chunks[i])) + 1, Len(chunks[i])))
         \o Rejoin(chunks, i + 1, overlap)

\* C18: for size > overlap >= 0, the chunks with the overlaps removed
\* concatenate to the word sequence of the text, chunk i starts
\* (i - 1) * (size - overlap) words in, only the last chunk is shorter than
\* size, and no chunk is the empty string.
C18_ChunksRebuildText ==
    (ChunkDone /\ cIn.chunkSize > cIn.overlap) =>
        LET ws == TextWords(cIn.text, 1, <<>>)
            cs == cOut.chunks
            step == cIn.chunkSize - cIn.overlap
        IN /\ Rejoin(cs, 1, cIn.overlap) = ws
           /\ \A i \in 1..Len(cs) :
                 /\ cs[i] # << <<>> >>
                 /\ Len(cs[i]) >= 1
                 /\ cs[i] = SubSeq(ws, (i - 1) * step + 1,
                                   Min(Len(ws), (i - 1) * step + cIn.chunkSize))
                 /\ i < Len(cs) => Len(cs[i]) = cIn.chunkSize

\* C19: every chunkText call returns, whatever the text, size and overlap.
C19_ChunkTextTerminates == <>ChunkDone

-----------------------------------------------------------------------------
(* Claims about one ingestion run (under SpecRun) *)

\* C20: in the chunk list of a run the chunk at position i (from 0) has
\* chunkId i, across all files, so no two chunks share (sourcePath, chunkId);
\* the items of the index the run saves carry the same ids.
C20_ChunkIdsDense ==
    \A r \in Runs :
        LET cs == run[r].chunks
            its == run[r].idx.items
        IN /\ \A i \in 1..Len(cs) : cs[i].chunkId = i - 1
           /\ \A i, j \in 1..Len(cs) :
                 (cs[i].sourcePath = cs[j].sourcePath /\ cs[i].chunkId = cs[j].chunkId)
                    => i = j
           /\ \A i \in 1..Len(its) : its[i].chunkId = i - 1

\* C20 witness: a run over two files, one of them with an empty page that
\* was skipped, has chunked both
C20_Witness ==
    \E r \in Runs :
        /\ Len(run[r].chunks) = 4
        /\ run[r].chunks[2].sourcePath = PathA /\ run[r].chunks[2].pageNumber = 3
        /\ run[r].chunks[3].sourcePath = PathB
        /\ Len(run[r].idx.items) = 4

Chunked(r) == run[r].pc \in {"embedder", "embed", "pause", "save", "write", "closing"}
Assembled(r) == run[r].pc \in {"save", "write", "closing"}

\* C21: once a run has chunked its files, the chunks of a PDF file are one
\* per page with non-empty text, in page order, each with that page's number
\* and text; an empty page has no chunk.
C21_OneChunkPerPage ==
    \A r \in Runs :
        Chunked(r) =>
            \A k \in 1..Len(run[r].files) :
                LET f == run[r].files[k]
                    got == SelectSeq(run[r].chunks, LAMBDA c : c.sourcePath = f.path)
                IN f.ext = "pdf" =>
                      /\ Len(got) = Cardinality({i \in 1..Len(f.pages) : f.pages[i] # <<>>})
                      /\ \A j \in 1..Len(got) :
                            /\ got[j].pageNumber \in 1..Len(f.pages)
                            /\ got[j].text = f.pages[got[j].pageNumber]
                            /\ got[j].text # <<>>
                      /\ \A i, j \in 1..Len(got) :
                            i < j => got[i].pageNumber < got[j].pageNumber

\* C21 witness: a run has chunked the three-page PDF whose second page is
\* empty, into the chunks of pages 1 and 3
C21_Witness ==
    \E r \in Runs :
        /\ Chunked(r)
        /\ run[r].files = <<FileA>>
        /\ Len(run[r].chunks) = 2
        /\ run[r].chunks[1].pageNumber = 1 /\ run[r].chunks[1].chunkId = 0
        /\ run[r].chunks[2].pageNumber = 3 /\ run[r].chunks[2].chunkId = 1

ItemOf(c, vector) ==
    [vector |-> vector, text |-> c.text, sourcePath |-> c.sourcePath,
     pageNumber |-> c.pageNumber, chunkId |-> c.chunkId, tokenCount |-> c.tokenCount]

\* C22: the embedder is called once per chunk in chunk order (each call adds
\* the vector of the next chunk's text), and item i of the assembled and of
\* the persisted index is chunk i with the vector of chunk i's text.
C22_VectorsPairedWithChunks ==
    /\ [](\A r \in Runs :
            LET cs == run[r].chunks
                es == run[r].embeddings
                its == run[r].idx.items
            IN /\ Len(es) <= Len(cs)
               /\ \A i \in 1..Len(es) : es[i] = Embed(cs[i].text)
               /\ Assembled(r) =>
                     /\ Len(its) = Len(cs)
                     /\ \A i \in 1..Len(cs) : its[i] = ItemOf(cs[i], Embed(cs[i].text))
               /\ run[r].pc = "closing" => LoadIndex(file).items = its)
    /\ [][\A r \in Runs :
            run'[r].embeddings # run[r].embeddings =>
               \/ run'[r].embeddings = <<>>
               \/ /\ Len(run[r].embeddings) < Len(run[r].chunks)
                  /\ run'[r].embeddings =
                        Append(run[r].embeddings,
                               Embed(run[r].chunks[Len(run[r].embeddings) + 1].text))]_vars

\* C22 witness: a run has written an index of four items whose first two
\* vectors differ
C22_Witness ==
    \E r \in Runs :
        /\ run[r].pc = "closing"
        /\ Len(run[r].idx.items) = 4
        /\ run[r].idx.items[1].vector # run[r].idx.items[2].vector
        /\ LoadIndex(file).items = run[r].idx.items

\* C23: a run whose pending await is a file's text extraction does not end
\* in error at that await (the file would be skipped instead).
C23_ExtractionFailureSkipsFile ==
    [][\A r \in Runs : run[r].pc = "extract" => run'[r].pc # "failed"]_vars


\* C24: in the chunking stage processed is the number of chunks emitted so
\* far, in the embedding stage it is the number of items embedded, between 0
\* and total = the number of chunks; it is 0 on entering either stage, never
\* decreases within a stage and grows by one per item embedded.
C24_ProgressCounts ==
    /\ [](/\ ingestProgress.stage = "chunking" =>
                \E r \in Runs :
                    /\ run[r].pc \in {"list", "extract", "yield"}
                    /\ ingestProgress.processed = Len(run[r].chunks)
          /\ ingestProgress.stage = "embedding" =>
                \E r \in Runs :
                    /\ Chunked(r)
                    /\ ingestProgress.processed = Len(run[r].embeddings)
                    /\ ingestProgress.total = Len(run[r].chunks)
                    /\ 0 <= ingestProgress.processed
                    /\ ingestProgress.processed <= ingestProgress.total)
    /\ [][/\ (ingestProgress'.stage # ingestProgress.stage
                /\ ingestProgress'.stage \in {"chunking", "embedding"})
               => ingestProgress'.processed = 0
          /\ (ingestProgress'.stage = ingestProgress.stage
                /\ ingestProgress.stage = "chunking")
               => ingestProgress'.processed >= ingestProgress.processed
          /\ (ingestProgress'.stage = ingestProgress.stage
                /\ ingestProgress.stage = "embedding")
               => ingestProgress'.processed \in
                     {ingestProgress.processed, ingestProgress.processed + 1}]_vars

\* C24 witness: a run that chunked four chunks has embedded three of them
C24_Witness ==
    /\ ingestProgress = Progress("embedding", 3, 4, "")
    /\ run[1].pc = "embed"
    /\ Len(run[1].chunks) = 4

\* C25: the chunking loop does not pass a multiple of BuildYieldEveryN chunks,
\* nor the embedding loop a multiple of EmbedYieldEveryN items, without
\* yielding there; a status poll is answered with the progress record as it
\* is at that time and leaves it alone.
C25_YieldsEveryN ==
    /\ [][\A r \in Runs :
            LET a == Len(run[r].chunks)
                b == Len(run'[r].chunks)
                x == Len(run[r].embeddings)
                y == Len(run'[r].embeddings)
            IN /\ b > a =>
                     /\ \A m \in (a + 1)..(b - 1) : m % BuildYieldEveryN # 0
                     /\ b % BuildYieldEveryN = 0 => run'[r].pc = "yield"
               /\ y > x =>
                     /\ y = x + 1
                     /\ y % EmbedYieldEveryN = 0 => run'[r].pc = "pause"]_vars
    /\ [][resp'.kind = "status" =>
             /\ resp'.data = ingestProgress
             /\ ingestProgress' = ingestProgress
             /\ run' = run]_vars

\* C25 witness: a poll was answered while the embedding loop was yielding
\* after its second item of four
C25_Witness ==
    /\ resp.kind = "status"
    /\ resp.data = Progress("embedding", 2, 4, "")
    /\ run[1].pc = "pause"

\* C26: when a save has completed and no save has started since, loadIndex
\* returns the saved Index, dim and items in order; with no index.json it
\* returns {dim: 384, items: []}.
C26_SaveLoadRoundTrip ==
    /\ ~file.exists => LoadIndex(file) = [dim |-> 384, items |-> <<>>]
    /\ \A r \in Runs : run[r].pc = "closing" => LoadIndex(file) = run[r].idx
    /\ (ingestProgress.stage = "done" /\ resp.kind = "load") => resp.index = stable

\* C26 witness: a loadIndex after a completed save returned the four items
\* that were saved
C26_Witness ==
    /\ ingestProgress.stage = "done"
    /\ resp.kind = "load"
    /\ Len(resp.index.items) = 4
    /\ resp.index.items[1] # resp.index.items[4]
    /\ resp.index = stable

\* C27: what loadIndex returns changes only in the step in which a rebuild
\* completes its save; polls, queries, uploads and deletes leave index.json
\* as it is.
C27_IndexChangesOnlyOnSave ==
    [][/\ LoadIndex(file') # LoadIndex(file) =>
             \E r \in Runs : run[r].pc = "write" /\ run'[r].pc = "closing"
       /\ resp'.kind \in {"status", "load", "upload", "delete"} => file' = file]_vars

-----------------------------------------------------------------------------
(* POST /api/chat/stream: the streaming relay.  server.js holds two         *)
(* versions of the handler, the current one and an earlier one with the     *)
(* flush logic; rIn.handler says which one serves the request.  An answer   *)
(* text is a sequence of tokens: "w" a word character, "." a sentence end,  *)
(* "n" a newline, "F" a fence marker (three backticks).                     *)

RetrievalHistoryExcerptChars == 2   \* RETRIEVAL_HISTORY_EXCERPT_CHARS (env; 800 when unset)
ChatChunkSize == 2        \* CHAT_CHUNK_SIZE (env; 1200 when unset)
FenceChars == 3           \* characters of a fence marker

Ev(event, text, error) == [event |-> event, text |-> text, error |-> error]

\* String.prototype.length of a token text
RECURSIVE CharLen(_)
CharLen(text) ==
    IF text = <<>> THEN 0
    ELSE (IF Head(text) = "F" THEN FenceChars ELSE 1) + CharLen(Tail(text))

\* matches of /(?:^|\n)\s*(?:```|~~~)/g in acc: a marker counts at the start
\* of acc or after a newline
Fences(acc) ==
    Cardinality({i \in 1..Len(acc) : acc[i] = "F" /\ (i = 1 \/ acc[i - 1] = "n")})

\* /[\.!?]\s*$/ or /\n\s*$/ on acc
AtSentenceBoundary(acc) ==
    acc # <<>> /\ acc[Len(acc)] \in {".", "n"}

\* send(event, data): two res.write calls, one event
Send(st, e) == [st EXCEPT !.out = Append(@, e)]

\* mutant: deltas are kept back and written as one delta at done
OnDeltaHeldBack(st, evt) ==
    CASE evt.type = "delta" -> [st EXCEPT !.acc = @ \o evt.text]
      [] evt.type = "done" -> Send(Send(st, Ev("delta", st.acc, "")), Ev("done", <<>>, ""))
      [] OTHER -> Send(st, Ev("error", <<>>, evt.error))

\* the callback of the current handler
OnDeltaCurrent(st, evt) ==
    CASE evt.type = "delta" ->
            Send([st EXCEPT !.acc = @ \o evt.text], Ev("delta", evt.text, ""))
      [] evt.type = "done" -> Send(st, Ev("done", <<>>, ""))
      [] OTHER -> Send(st, Ev("error", <<>>, evt.error))

\* the callback of the earlier handler: flush when the text since the last
\* flush is long enough, ends at a boundary and has an even fence count
OnDeltaEarlier(st, evt) ==
    CASE evt.type = "delta" ->
            LET acc == st.accForFlush \o evt.text
                sent == Send([st EXCEPT !.hasEmittedDelta = TRUE],
                             Ev("delta", evt.text, ""))
            IN IF /\ CharLen(acc) >= ChatChunkSize
                  /\ AtSentenceBoundary(acc)
                  /\ Fences(acc) % 2 = 0
               THEN [Send(sent, Ev("flush", <<>>, "")) EXCEPT !.accForFlush = <<>>]
               ELSE [sent EXCEPT !.accForFlush = acc]
      [] evt.type = "done" ->
            Send(IF st.hasEmittedDelta THEN st ELSE Send(st, Ev("delta", <<>>, "")),
                 Ev("done", <<>>, ""))
      [] OTHER -> Send(st, Ev("error", <<>>, evt.error))

OnDelta(st, evt) ==
    IF rIn.handler = "current" THEN OnDeltaCurrent(st, evt) ELSE OnDeltaEarlier(st, evt)

\* mutant: the catch block writes the error event and leaves the response open
HandlerCatchOpen(st, err) ==
    [Send(st, Ev("error", <<>>, err)) EXCEPT !.pc = "finished"]

\* the handler's catch block: write an error event, res.end()
HandlerCatch(st, err) ==
    [Send(st, Ev("error", <<>>, err)) EXCEPT !.ended = TRUE, !.pc = "finished"]

\* chatCompleteStream returned: res.end()
Finish(st) == [st EXCEPT !.ended = TRUE, !.pc = "finished"]

\* the history limits in force (unset in the environment)
HistoryOf(raw) ==
    SanitizeHistory(raw, DefaultHistoryMaxMessages, DefaultHistoryCharBudget)

\* String.prototype.slice(0, n) on the content strings used here
StrSlice(s, n) ==
    IF n >= Len(s) THEN s
    ELSE IF n <= 0 THEN ""
    ELSE CASE s = "abc" /\ n = 1 -> "a"
           [] s = "abc" /\ n = 2 -> "ab"
           [] s = "ab" /\ n = 1 -> "a"

\* assistantExcerpt: the start of the last assistant message of the
\* sanitized history, '' when there is none
AssistantExcerpt(raw) ==
    LET assistants == SelectSeq(HistoryOf(raw), LAMBDA m : m.role = "assistant")
    IN IF assistants = <<>> THEN ""
       ELSE StrSlice(assistants[Len(assistants)].content, RetrievalHistoryExcerptChars)

\* mutant: the excerpt of the first assistant message
RetrievalQueryFirst(query, raw) ==
    LET assistants == SelectSeq(HistoryOf(raw), LAMBDA m : m.role = "assistant")
    IN IF assistants = <<>> THEN query
       ELSE StrSlice(assistants[1].content, RetrievalHistoryExcerptChars)
               \o " \n\n" \o query

\* retrievalQuery, the text searchIndex embeds
RetrievalQuery(query, raw) ==
    IF AssistantExcerpt(raw) # "" THEN AssistantExcerpt(raw) \o " \n\n" \o query
    ELSE query

\* the user prompt, kept as its parts: the question and, when retrieval
\* returned results, the context (the previous answer's excerpt, if any,
\* then one line per result: file name, page label, snippet)
UserContent(query, raw, hits) ==
    LET ContextLine(item) ==
            [src |-> item.sourcePath[Len(item.sourcePath)],
             page |-> item.pageNumber,
             snippet |-> SubSeq(item.text, 1, Min(Len(item.text), 2000))]
        contextLines == [i \in 1..Len(hits) |-> ContextLine(hits[i])]
        historyContext == IF AssistantExcerpt(raw) # ""
                          THEN <<[excerpt |-> AssistantExcerpt(raw)]>> ELSE <<>>
    IN [question |-> query,
        context |-> IF Len(contextLines) > 0 THEN historyContext \o contextLines
                    ELSE <<>>]

\* mutant: the strict policy only when the flag is given as false
SystemPromptUnlessFalse(handler, allowOutsideKnowledge) ==
    IF handler = "current" /\ allowOutsideKnowledge # "false" THEN "augmented"
    ELSE "strict"

\* the system prompt: if (allowOutsideKnowledge) the augmented policy, else
\* the strict one; the earlier handler knows the strict policy only.  The
\* flag is the JSON value of the request body: absent, false or true.
SystemPrompt(handler, allowOutsideKnowledge) ==
    IF handler = "current" /\ allowOutsideKnowledge = "true" THEN "augmented"
    ELSE "strict"

\* mutant: the history newest first
MessagesHistoryReversed(query, raw, hits, system) ==
    <<[role |-> "system", content |-> system]>> \o Reverse(HistoryOf(raw))
        \o <<[role |-> "user", content |-> UserContent(query, raw, hits)]>>

\* the messages handed to the completion call
Messages(query, raw, hits, system) ==
    <<[role |-> "system", content |-> system]>> \o HistoryOf(raw)
        \o <<[role |-> "user", content |-> UserContent(query, raw, hits)]>>

Call(st, kind, messages) ==
    [st EXCEPT !.calls = Append(@, [kind |-> kind, messages |-> messages])]

MaxParts == 2        \* upstream parts of a streamed answer (SpecRelay)
MaxFlushParts == 6   \* upstream parts of a streamed answer (SpecFlush)

HistAbsent == [given |-> FALSE, isArray |-> FALSE, entries |-> <<>>]
HistNotArray == [given |-> TRUE, isArray |-> FALSE, entries |-> <<>>]
HistOfEntries(es) == [given |-> TRUE, isArray |-> TRUE, entries |-> es]

RelayHistories ==
    { HistAbsent, HistNotArray,
      HistOfEntries(<<[isObject |-> TRUE, role |-> "user", content |-> Str("a")]>>),
      HistOfEntries(<<[isObject |-> TRUE, role |-> "system", content |-> Str("a")]>>),
      HistOfEntries(<<[isObject |-> TRUE, role |-> "assistant", content |-> Str("a")],
                      [isObject |-> TRUE, role |-> "user", content |-> Str("ab")],
                      [isObject |-> TRUE, role |-> "ASSISTANT", content |-> Str("abc")]>>) }

\* what the non-streaming completion call will do
NoFallback == [ok |-> FALSE, text |-> <<>>]
Fallbacks == { NoFallback, [ok |-> TRUE, text |-> <<>>], [ok |-> TRUE, text |-> <<"w">>] }

\* the content of one upstream part: empty (no content in the part) or text
PartTexts == { <<>>, <<"w">>, <<".">> }
Scripts(texts, n) == UNION {[1..m -> texts] : m \in 0..n}

FreshRelay ==
    [pc |-> "ready", status |-> 0, sse |-> FALSE, out |-> <<>>, ended |-> FALSE,
     pos |-> 0, acc |-> <<>>, accForFlush |-> <<>>, hasEmittedDelta |-> FALSE,
     clientOpen |-> TRUE, calls |-> <<>>, retrievalQuery |-> ""]

InitRelay ==
    /\ rIn \in {i \in [handler : {"current", "earlier"},
                       query : {"", "q"},
                       history : RelayHistories,
                       hits : {<<>>, IndexOf(<<FileA, FileB>>).items},
                       allowOutsideKnowledge : {"absent", "false", "true"},
                       provider : {"openai-compatible", "groq"},
                       connectOk : BOOLEAN,
                       parts : Scripts(PartTexts, MaxParts),
                       end : {"done", "eof", "throw"},
                       fallback : Fallbacks] :
                  i.provider = "openai-compatible" => i.fallback = NoFallback}
    /\ rel = FreshRelay
    /\ file = [exists |-> FALSE, data |-> <<>>]
    /\ ingestProgress = Progress("idle", 0, 0, "")
    /\ run = IdleRuns
    /\ docs = <<>>
    /\ resp = NoResp
    /\ stable = LoadIndex(file)
    /\ lastWrite = [run |-> 0, by |-> "init"]
    /\ latest = 0
    /\ sIn = NoSearch /\ sOut = NoSearch
    /\ hIn = NoHist /\ hOut = NoHist
    /\ cIn = NoChunk /\ cOut = NoChunk
    /\ SideOff

RelayStep(st) ==
    /\ rel' = st
    /\ UNCHANGED <<ingestVars, searchVars, histVars, chunkVars, rIn, sideVars>>

\* the handler up to its first await: 400 on a missing query, else
\* sanitizeHistory and the searchIndex call
Receive ==
    /\ rel.pc = "ready"
    /\ RelayStep(IF rIn.query = ""
                 THEN [rel EXCEPT !.pc = "finished", !.status = 400, !.ended = TRUE]
                 ELSE [Call(rel, "search", <<>>) EXCEPT
                          !.pc = "search",
                          !.retrievalQuery = RetrievalQuery(rIn.query, rIn.history)])

\* searchIndex returned: prompts, SSE headers, the status event,
\* sanitizeHistory, and the chatCompleteStream call up to its request
SearchReturn ==
    /\ rel.pc = "search"
    /\ RelayStep([Call(Send([rel EXCEPT !.status = 200, !.sse = TRUE],
                            Ev("status", <<>>, "")),
                       "stream", Messages(rIn.query, rIn.history, rIn.hits,
                 SystemPrompt(rIn.handler, rIn.allowOutsideKnowledge)))
                    EXCEPT !.pc = "connect"])

\* searchIndex threw (the embedder failed): the catch block
SearchFail ==
    /\ rel.pc = "search"
    /\ RelayStep(HandlerCatch(rel, "Error"))

\* the streaming request was accepted: the reader loop awaits its first read
Connect ==
    /\ rel.pc = "connect" /\ rIn.connectOk
    /\ RelayStep([rel EXCEPT !.pc = "read"])

\* the streaming request failed: the OpenAI-compatible path throws into the
\* handler's catch, the Groq path calls the non-streaming completion
StreamFailed(st) ==
    IF rIn.provider = "openai-compatible"
    THEN HandlerCatch(st, "Error")
    ELSE [Call(st, "complete", Messages(rIn.query, rIn.history, rIn.hits,
                 SystemPrompt(rIn.handler, rIn.allowOutsideKnowledge))) EXCEPT !.pc = "fallback"]

ConnectFail ==
    /\ rel.pc = "connect" /\ ~rIn.connectOk
    /\ RelayStep(StreamFailed(rel))

\* one part read from upstream: a part with content goes to the callback
ReadPart ==
    /\ rel.pc = "read" /\ rel.pos < Len(rIn.parts)
    /\ LET text == rIn.parts[rel.pos + 1]
           st == [rel EXCEPT !.pos = @ + 1]
       IN RelayStep(IF text # <<>> THEN OnDelta(st, [type |-> "delta", text |-> text])
                    ELSE st)

\* upstream ended ([DONE] or end of stream): done to the callback, res.end()
StreamEnd ==
    /\ rel.pc = "read" /\ rel.pos = Len(rIn.parts) /\ rIn.end \in {"done", "eof"}
    /\ RelayStep(Finish(OnDelta(rel, [type |-> "done"])))

\* a read of the stream threw
StreamThrow ==
    /\ rel.pc = "read" /\ rel.pos = Len(rIn.parts) /\ rIn.end = "throw"
    /\ RelayStep(StreamFailed(rel))

\* the non-streaming completion returned: its text, if any, as one delta
Fallback ==
    /\ rel.pc = "fallback" /\ rIn.fallback.ok
    /\ LET st == IF rIn.fallback.text # <<>>
                 THEN OnDelta(rel, [type |-> "delta", text |-> rIn.fallback.text])
                 ELSE rel
       IN RelayStep(Finish(OnDelta(st, [type |-> "done"])))

\* the non-streaming completion threw too
FallbackFail ==
    /\ rel.pc = "fallback" /\ ~rIn.fallback.ok
    /\ RelayStep(Finish(OnDelta(rel, [type |-> "error", error |-> "Error"])))

\* the client closes the connection; the handler listens to nothing
ClientClose ==
    /\ rel.pc \notin {"ready", "finished"} /\ rel.clientOpen
    /\ RelayStep([rel EXCEPT !.clientOpen = FALSE])

NextRelay ==
    \/ Receive \/ SearchReturn \/ SearchFail
    \/ Connect \/ ConnectFail
    \/ ReadPart \/ StreamEnd \/ StreamThrow
    \/ Fallback \/ FallbackFail
    \/ ClientClose

SpecRelay == InitRelay /\ [][NextRelay]_vars

-----------------------------------------------------------------------------
(* Claims about the streaming relay (under SpecRelay) *)

EventsOf(out, event) == SelectSeq(out, LAMBDA e : e.event = event)
DeltaTexts(out) == [i \in 1..Len(EventsOf(out, "delta")) |-> EventsOf(out, "delta")[i].text]

StreamCalled == \E i \in 1..Len(rel.calls) : rel.calls[i].kind = "stream"
CompleteCalls == SelectSeq(rel.calls, LAMBDA c : c.kind = "complete")
StreamBroke == StreamCalled /\ (~rIn.connectOk \/ rIn.end = "throw")
RelayFinished == rel.pc = "finished"

\* the deltas the completion has delivered so far: the content of the parts
\* read, then the text of the non-streaming call once it has returned
Received ==
    SelectSeq(SubSeq(rIn.parts, 1, rel.pos), LAMBDA t : t # <<>>)
      \o (IF RelayFinished /\ CompleteCalls # <<>> /\ rIn.fallback.ok
             /\ rIn.fallback.text # <<>>
          THEN <<rIn.fallback.text>> ELSE <<>>)

\* C11 (as amended): at every moment the delta events written are exactly
\* the deltas received so far, in order (each is written when it is
\* received), apart from the one empty delta the earlier handler writes
\* before done when none was received.
C11_DeltasForwarded ==
    \/ DeltaTexts(rel.out) = Received
    \/ /\ Received = <<>>
       /\ DeltaTexts(rel.out) = << <<>> >>
       /\ rel.out[Len(rel.out)].event = "done"

\* C11 witness: two deltas read from upstream and written, the stream still
\* being read
C11_Witness ==
    /\ rel.pc = "read" /\ rel.pos = 2
    /\ rIn.parts = << <<"w">>, <<".">> >>
    /\ DeltaTexts(rel.out) = << <<"w">>, <<".">> >>

\* C11 as stated: the delta events written are exactly the deltas received.
C11_DeltasExactly == DeltaTexts(rel.out) = Received

\* C12: when the streaming completion ends without failure, exactly one done
\* event is written and it is the last event; when no delta was received,
\* exactly one empty delta is written right before it.
C12_DoneAfterSomeDelta ==
    (RelayFinished /\ StreamCalled /\ ~StreamBroke) =>
        /\ Len(EventsOf(rel.out, "done")) = 1
        /\ rel.out[Len(rel.out)].event = "done"
        /\ DeltaTexts(rel.out) # <<>>
        /\ Received = <<>> =>
              /\ DeltaTexts(rel.out) = << <<>> >>
              /\ rel.out[Len(rel.out) - 1] = Ev("delta", <<>>, "")

\* C14: when the completion fails and no fallback succeeds, exactly one error
\* event with the error text is written, it is the last event, no done event
\* is written, and the response is ended.
C14_ErrorEventOnFailure ==
    (RelayFinished /\ StreamBroke /\ (rIn.provider = "groq" => ~rIn.fallback.ok)) =>
        /\ Len(EventsOf(rel.out, "error")) = 1
        /\ rel.out[Len(rel.out)].event = "error"
        /\ rel.out[Len(rel.out)].error # ""
        /\ EventsOf(rel.out, "done") = <<>>
        /\ rel.ended

\* C14 witness: a stream that broke after a delta was forwarded, with no
\* fallback that succeeds
C14_Witness ==
    /\ RelayFinished /\ StreamBroke /\ rIn.connectOk
    /\ rIn.provider = "groq" => ~rIn.fallback.ok
    /\ rel.pos >= 1 /\ DeltaTexts(rel.out) # <<>>
    /\ Len(EventsOf(rel.out, "error")) = 1

\* C15: for every provider, when the streaming call fails exactly one
\* non-streaming call is made with the same messages; when it succeeds its
\* text is written as a delta followed by done and no error event is written.
C15_FallbackForEveryProvider ==
    (RelayFinished /\ StreamBroke) =>
        /\ Len(CompleteCalls) = 1
        /\ CompleteCalls[1].messages = Messages(rIn.query, rIn.history, rIn.hits,
                 SystemPrompt(rIn.handler, rIn.allowOutsideKnowledge))
        /\ rIn.fallback.ok =>
              /\ Len(rel.out) >= 2
              /\ rel.out[Len(rel.out) - 1] = Ev("delta", rIn.fallback.text, "")
              /\ rel.out[Len(rel.out)].event = "done"
              /\ EventsOf(rel.out, "error") = <<>>

\* C16: once the client has closed the connection, no further event is
\* written to the response and no further part is read from upstream.
C16_StopsOnDisconnect ==
    [][~rel.clientOpen => (rel'.out = rel.out /\ rel'.pos = rel.pos)]_vars

\* a history that was sent and is not an array of valid messages
Malformed(raw) ==
    raw.given /\ (~raw.isArray \/ Len(ValidMessages(raw.entries)) < Len(raw.entries))

\* C17: a request with a missing or empty query, or a malformed history, is
\* answered with an error status before any retrieval or completion call,
\* and no event stream is opened.
C17_RejectedBeforeWork ==
    (rel.pc # "ready" /\ (rIn.query = "" \/ Malformed(rIn.history))) =>
        /\ rel.status = 400
        /\ rel.calls = <<>>
        /\ ~rel.sse /\ rel.out = <<>>

\* C29: the text embedded for retrieval is the first
\* RetrievalHistoryExcerptChars characters of the last assistant message of
\* the sanitized history, then the separator and the query; it is the bare
\* query exactly when the sanitized history holds no assistant message.
C29_RetrievalQueryFromLastAnswer ==
    (rel.pc # "ready" /\ rIn.query # "") =>
        LET h == HistoryOf(rIn.history)
            A == {i \in 1..Len(h) : h[i].role = "assistant"}
        IN /\ (A = {}) <=> (rel.retrievalQuery = rIn.query)
           /\ A # {} =>
                 LET last == CHOOSE i \in A : \A j \in A : j <= i
                 IN rel.retrievalQuery =
                       StrSlice(h[last].content, RetrievalHistoryExcerptChars)
                          \o " \n\n" \o rIn.query

\* C29 witness: a history with two assistant messages, the last one longer
\* than the excerpt, gave the retrieval text
C29_Witness ==
    /\ rel.pc = "search"
    /\ Len(SelectSeq(HistoryOf(rIn.history), LAMBDA m : m.role = "assistant")) = 2
    /\ rel.retrievalQuery = "ab \n\nq"

\* C30: every message list handed to a completion call is one system
\* message, then the sanitized history in its order, then one user message
\* with the question and, when retrieval returned results, one context line
\* per result.
C30_PromptShape ==
    \A i \in 1..Len(rel.calls) :
        rel.calls[i].kind \in {"stream", "complete"} =>
            LET ms == rel.calls[i].messages
                h == HistoryOf(rIn.history)
                user == ms[Len(ms)]
                lines == SelectSeq(user.content.context, LAMBDA c : "src" \in DOMAIN c)
            IN /\ Len(ms) = Len(h) + 2
               /\ ms[1].role = "system"
               /\ \A j \in 2..Len(ms) : ms[j].role # "system"
               /\ SubSeq(ms, 2, Len(ms) - 1) = h
               /\ rIn.history.isArray => IsSubseq(h, ValidMessages(rIn.history.entries))
               /\ user.role = "user"
               /\ user.content.question = rIn.query
               /\ rIn.hits # <<>> =>
                     /\ Len(lines) = Len(rIn.hits)
                     /\ \A k \in 1..Len(lines) :
                           /\ lines[k].snippet = rIn.hits[k].text
                           /\ lines[k].page = rIn.hits[k].pageNumber
                           /\ lines[k].src = rIn.hits[k].sourcePath[Len(rIn.hits[k].sourcePath)]

\* C30 witness: a completion call was made with a history of three messages
\* and four retrieved items
C30_Witness ==
    /\ Len(rel.calls) >= 2
    /\ rel.calls[2].kind = "stream"
    /\ Len(rel.calls[2].messages) = 5
    /\ rel.calls[2].messages[2].role = "assistant"
    /\ rel.calls[2].messages[3].role = "user"
    /\ Len(rel.calls[2].messages[5].content.context) = 5

\* C31: in the handler that knows both policies, the system prompt of every
\* completion call is the strict policy exactly when allowOutsideKnowledge is
\* false or absent, also when retrieval returned nothing, and the augmented
\* policy only when the flag is true.
C31_StrictUnlessAllowed ==
    \A i \in 1..Len(rel.calls) :
        (rIn.handler = "current" /\ rel.calls[i].kind \in {"stream", "complete"}) =>
            LET system == rel.calls[i].messages[1].content
            IN /\ system \in {"strict", "augmented"}
               /\ (system = "strict") <=> (rIn.allowOutsideKnowledge \in {"false", "absent"})
               /\ (system = "augmented") => (rIn.allowOutsideKnowledge = "true")

\* C31 witness: retrieval returned nothing, the flag was absent, and the
\* completion was called with the strict policy
C31_Witness ==
    /\ rIn.handler = "current" /\ rIn.hits = <<>> /\ rIn.allowOutsideKnowledge = "absent"
    /\ Len(rel.calls) >= 2
    /\ rel.calls[2].kind = "stream"
    /\ rel.calls[2].messages[1].content = "strict"
    /\ rel.calls[2].messages[Len(rel.calls[2].messages)].content.context = <<>>

\* C37: when the stream broke after deltas were forwarded and the
\* non-streaming completion returned the whole answer (of which the forwarded
\* text is the beginning), the delta texts written add up to the answer once.
C37_AnswerDeliveredOnce ==
    LET Concat(texts) ==
            LET RECURSIVE Cat(_)
                Cat(i) == IF i > Len(texts) THEN <<>> ELSE texts[i] \o Cat(i + 1)
            IN Cat(1)
        streamed == Concat(SelectSeq(rIn.parts, LAMBDA t : t # <<>>))
        answer == rIn.fallback.text
    IN (/\ rel.pc = "finished"
        /\ CompleteCalls # <<>>
        /\ rIn.fallback.ok
        /\ Len(streamed) <= Len(answer)
        /\ streamed = SubSeq(answer, 1, Len(streamed)))
          => Concat(DeltaTexts(rel.out)) = answer

-----------------------------------------------------------------------------
(* SpecFlush: the earlier handler relaying an answer that streams without  *)
(* failure, one token per delta                                             *)

FlushTexts == { <<"w">>, <<".">>, <<"n">>, <<"F">> }

\* an answer without fences, three times CHAT_CHUNK_SIZE long, with a
\* sentence end after every second character
LongAnswer == <<"w", ".", "w", ".", "w", ".">>

\* the ways the upstream can split a text into non-empty deltas, one per
\* data: line of the stream
Segmentations(text) ==
    { LET ends == cuts \cup {Len(text)}
          EndAt(i) == CHOOSE e \in ends : Cardinality({x \in ends : x <= e}) = i
      IN [i \in 1..Cardinality(ends) |->
             SubSeq(text, IF i = 1 THEN 1 ELSE EndAt(i - 1) + 1, EndAt(i))]
      : cuts \in SUBSET (1..(Len(text) - 1)) }

InitFlush ==
    /\ rIn \in [handler : {"earlier"}, query : {"q"}, history : {HistAbsent},
                hits : {<<>>}, allowOutsideKnowledge : {"absent"},
                provider : {"openai-compatible"}, connectOk : {TRUE},
                parts : Scripts(FlushTexts, MaxFlushParts) \cup Segmentations(LongAnswer),
                end : {"done"}, fallback : {NoFallback}]
    /\ rel = FreshRelay
    /\ file = [exists |-> FALSE, data |-> <<>>]
    /\ ingestProgress = Progress("idle", 0, 0, "")
    /\ run = IdleRuns
    /\ docs = <<>>
    /\ resp = NoResp
    /\ stable = LoadIndex(file)
    /\ lastWrite = [run |-> 0, by |-> "init"]
    /\ latest = 0
    /\ sIn = NoSearch /\ sOut = NoSearch
    /\ hIn = NoHist /\ hOut = NoHist
    /\ cIn = NoChunk /\ cOut = NoChunk
    /\ SideOff

NextFlush == Receive \/ SearchReturn \/ Connect \/ ReadPart \/ StreamEnd

SpecFlush == InitFlush /\ [][NextFlush]_vars

\* the text of the delta events among the first k events
RECURSIVE TextUpTo(_, _)
TextUpTo(out, k) ==
    IF k = 0 THEN <<>>
    ELSE TextUpTo(out, k - 1) \o (IF out[k].event = "delta" THEN out[k].text ELSE <<>>)

\* the position of the last flush before event k (0 when there is none)
RECURSIVE FlushBefore(_, _)
FlushBefore(out, k) ==
    IF k <= 1 THEN 0
    ELSE IF out[k - 1].event = "flush" THEN k - 1 ELSE FlushBefore(out, k - 1)

\* fence markers at a line start of the answer text, from position from on
LineStartFences(text, from) ==
    Cardinality({i \in from..Len(text) : text[i] = "F" /\ (i = 1 \/ text[i - 1] = "n")})

\* C13: a flush event comes only directly after a delta at which the text
\* since the previous flush has at least the threshold length, ends at a
\* sentence or line boundary and holds an even number of line-start fence
\* markers; the accumulator holds exactly the text since the last flush; so
\* no flush falls inside a fenced code block of the answer.
C13_FlushOnlyAtSafePoints ==
    /\ \A k \in 1..Len(rel.out) : rel.out[k].event = "flush" =>
          LET all == TextUpTo(rel.out, k)
              before == TextUpTo(rel.out, FlushBefore(rel.out, k))
              seg == SubSeq(all, Len(before) + 1, Len(all))
          IN /\ k > 1 /\ rel.out[k - 1].event = "delta"
             /\ CharLen(seg) >= ChatChunkSize
             /\ seg[Len(seg)] \in {".", "n"}
             /\ LineStartFences(all, Len(before) + 1) % 2 = 0
             /\ LineStartFences(all, 1) % 2 = 0
    /\ LET all == TextUpTo(rel.out, Len(rel.out))
           before == TextUpTo(rel.out, FlushBefore(rel.out, Len(rel.out) + 1))
       IN rel.accForFlush = SubSeq(all, Len(before) + 1, Len(all))

\* C32: when the upstream has delivered the long answer, in whatever deltas,
\* the response carries at least two flush events, and at each of them the
\* text forwarded so far ends at a sentence end.
C32_LongAnswerFlushedTwice ==
    LET RECURSIVE Cat(_)
        Cat(i) == IF i > Len(rIn.parts) THEN <<>> ELSE rIn.parts[i] \o Cat(i + 1)
        flushes == {k \in 1..Len(rel.out) : rel.out[k].event = "flush"}
    IN (rel.pc = "finished" /\ Cat(1) = LongAnswer /\ CharLen(LongAnswer) > 2 * ChatChunkSize)
          => /\ Cardinality(flushes) >= 2
             /\ \A k \in flushes : AtSentenceBoundary(TextUpTo(rel.out, k))

-----------------------------------------------------------------------------
\* The parts of the program outside the ingestion, search, history, chunking
\* and relay models are at rest in the specifications below.

RestOff ==
    /\ file = [exists |-> FALSE, data |-> <<>>]
    /\ ingestProgress = Progress("idle", 0, 0, "")
    /\ run = IdleRuns
    /\ docs = <<>>
    /\ resp = NoResp
    /\ stable = LoadIndex(file)
    /\ lastWrite = [run |-> 0, by |-> "init"]
    /\ latest = 0
    /\ sIn = NoSearch /\ sOut = NoSearch
    /\ hIn = NoHist /\ hOut = NoHist
    /\ cIn = NoChunk /\ cOut = NoChunk
    /\ rIn = NoRelay /\ rel = NoRelay

restVars == <<ingestVars, searchVars, histVars, chunkVars, relayVars>>

-----------------------------------------------------------------------------
\* The embedding pipeline (llmAdapter.js getEmbedder).  embedTexts awaits
\* getEmbedder; the requests of the server and the ingestion run call it
\* concurrently.  embedderPipeline is 0 for null, else the number of the
\* pipeline object that construction produced.

Embedders == 1..3         \* concurrent callers of getEmbedder
MaxEmbedCalls == 2        \* calls per caller

InitEmbedder ==
    /\ emb = [pc |-> "on", embedderPipeline |-> 0, constructed |-> 0,
              caller |-> [c \in Embedders |->
                            [pc |-> "idle", mine |-> 0, got |-> 0, calls |-> 0]]]
    /\ cfg = NoSide /\ ui = NoSide /\ sse = NoSide
    /\ RestOff

\* getEmbedder up to its await: with no pipeline yet the construction starts
\* (pipeline(...) is called), otherwise the pipeline at hand is returned
GetEmbedderCall(c) ==
    /\ emb.pc = "on"
    /\ emb.caller[c].pc = "idle"
    /\ emb.caller[c].calls < MaxEmbedCalls
    /\ emb' = IF emb.embedderPipeline = 0
              THEN [emb EXCEPT !.constructed = @ + 1,
                               !.caller[c].pc = "constructing",
                               !.caller[c].mine = emb.constructed + 1,
                               !.caller[c].calls = @ + 1]
              ELSE [emb EXCEPT !.caller[c].pc = "idle",
                               !.caller[c].got = emb.embedderPipeline,
                               !.caller[c].calls = @ + 1]
    /\ UNCHANGED <<restVars, cfg, ui, sse>>

\* the await resumes: embedderPipeline = the constructed pipeline; return it
PipelineReady(c) ==
    /\ emb.pc = "on"
    /\ emb.caller[c].pc = "constructing"
    /\ emb' = [emb EXCEPT !.embedderPipeline = emb.caller[c].mine,
                          !.caller[c].pc = "idle",
                          !.caller[c].got = emb.caller[c].mine]
    /\ UNCHANGED <<restVars, cfg, ui, sse>>

\* pipeline(...) rejects (the model files cannot be loaded): getEmbedder
\* throws and embedderPipeline keeps its value
PipelineFails(c) ==
    /\ emb.pc = "on"
    /\ emb.caller[c].pc = "constructing"
    /\ emb' = [emb EXCEPT !.caller[c].pc = "idle", !.caller[c].mine = 0]
    /\ UNCHANGED <<restVars, cfg, ui, sse>>

NextEmbedder ==
    \E c \in Embedders : GetEmbedderCall(c) \/ PipelineReady(c) \/ PipelineFails(c)

SpecEmbedder == InitEmbedder /\ [][NextEmbedder]_vars

\* C38: no two constructions of the pipeline succeed in one process, also
\* when getEmbedder is called concurrently: every caller is handed the one
\* pipeline object.
C38_PipelineConstructedOnce ==
    emb.pc = "on" =>
        \A c, d \in Embedders :
            (emb.caller[c].got # 0 /\ emb.caller[d].got # 0)
                => emb.caller[c].got = emb.caller[d].got

-----------------------------------------------------------------------------
\* The chat page reading the event stream (public/app.js).  The response body
\* is a sequence of bytes; a byte of the model is a piece of a line: the
\* "event:" or "data:" prefix, the event name or the JSON payload, or the
\* newline "nl".  For a delta the payload is its text, else it is "{}".

MaxRead == 8              \* bytes one reader.read() returns at most
MaxDeltas == 2            \* delta events of one response

\* send(event, data): res.write of the event line, res.write of the data line
\* and the empty line
Wire(e) == <<"event:", e.event, "nl", "data:", e.data, "nl", "nl">>

RECURSIVE WireAll(_)
WireAll(events) ==
    IF events = <<>> THEN <<>> ELSE Wire(Head(events)) \o WireAll(Tail(events))

\* the responses of /api/chat/stream: status, deltas, then done or error
Responses ==
    { <<[event |-> "status", data |-> "{}"]>> \o deltas \o <<[event |-> last, data |-> "{}"]>> :
        deltas \in UNION {[1..m -> [event : {"delta"}, data : {"a", "b"}]] : m \in 0..MaxDeltas},
        last \in {"done", "error"} }

\* buffer.split(/\r?\n/): the lines, the last of them the unfinished rest
RECURSIVE SplitLines(_, _)
SplitLines(bytes, line) ==
    IF bytes = <<>> THEN <<line>>
    ELSE IF Head(bytes) = "nl" THEN <<line>> \o SplitLines(Tail(bytes), <<>>)
    ELSE SplitLines(Tail(bytes), Append(line, Head(bytes)))

\* the branch taken for a data: line under the event name at hand: a delta
\* with text, flush, done and error act; anything else does nothing
Dispatch(st, event, data) ==
    IF event = "delta" /\ data \notin {"{}", ""}
    THEN [st EXCEPT !.acc = Append(@, data),
                    !.handled = Append(@, [event |-> event, data |-> data])]
    ELSE IF event \in {"flush", "done", "error"}
    THEN [st EXCEPT !.handled = Append(@, [event |-> event, data |-> data])]
    ELSE st

\* the for loop over the complete lines of one read; event is the variable
\* declared before the loop
RECURSIVE ForLines(_, _, _)
ForLines(st, lines, event) ==
    IF lines = <<>> THEN st
    ELSE LET line == Head(lines)
         IN IF line = <<>> THEN ForLines(st, Tail(lines), event)
            ELSE IF line[1] = "event:"
            THEN ForLines(st, Tail(lines), IF Len(line) > 1 THEN line[2] ELSE "")
            ELSE IF line[1] = "data:"
            THEN ForLines(Dispatch(st, event, IF Len(line) > 1 THEN line[2] ELSE ""),
                          Tail(lines), event)
            ELSE ForLines(st, Tail(lines), event)

InitClient ==
    /\ sse \in [pc : {"reading"}, wire : {WireAll(r) : r \in Responses}, pos : {0},
                buffer : {<<>>}, acc : {<<>>}, handled : {<<>>}, split : {FALSE}]
    /\ cfg = NoSide /\ emb = NoSide /\ ui = NoSide
    /\ RestOff

\* one turn of the read loop: reader.read() returns the next n bytes; the
\* buffer is split, the rest kept, and the lines handled with event = null
\* at the start.  split records that a read ended after the event: line of
\* an event and before the end of its data: line.
ReadChunk ==
    /\ sse.pc = "reading"
    /\ \E n \in 1..MaxRead :
         /\ sse.pos + n <= Len(sse.wire)
         /\ LET value == SubSeq(sse.wire, sse.pos + 1, sse.pos + n)
                lines == SplitLines(sse.buffer \o value, <<>>)
                st == ForLines(sse, SubSeq(lines, 1, Len(lines) - 1), "null")
            IN sse' = [st EXCEPT !.pos = @ + n,
                                 !.buffer = lines[Len(lines)],
                                 !.split = @ \/ (sse.pos + n) % 7 \in {3, 4, 5}]
    /\ UNCHANGED <<restVars, cfg, emb, ui>>

\* reader.read() returns done: the loop breaks
ReadDone ==
    /\ sse.pc = "reading"
    /\ sse.pos = Len(sse.wire)
    /\ sse' = [sse EXCEPT !.pc = "closed"]
    /\ UNCHANGED <<restVars, cfg, emb, ui>>

NextClient == ReadChunk \/ ReadDone

SpecClient == InitClient /\ [][NextClient]_vars

\* the events of a response the page acts on, in the order sent
RECURSIVE ActedOn(_)
ActedOn(bytes) ==
    IF bytes = <<>> THEN <<>>
    ELSE (IF bytes[2] = "status" THEN <<>> ELSE <<[event |-> bytes[2], data |-> bytes[5]]>>)
            \o ActedOn(SubSeq(bytes, 8, Len(bytes)))

\* C36: when the stream has ended the page has handled every event the
\* server sent, in order, however the bytes were split across reads.
C36_EveryEventHandled ==
    sse.pc = "closed" => sse.handled = ActedOn(sse.wire)

\* What holds instead: when every read that ends inside an event ends inside
\* its event: line or after its data: line, every event is handled.
SplitsOutsideDataHandled ==
    (sse.pc = "closed" /\ ~sse.split) => sse.handled = ActedOn(sse.wire)

-----------------------------------------------------------------------------
\* The settings page's rebuild control (rebuildIndex of the settings page
\* script).  uploads stands for the upload zone's disabled class and the file
\* picker's disabled flag, which the code always sets together.

MaxAttempts == 2          \* clicks on the rebuild button
MaxCount == 2             \* processed and total of a status response

\* Math.max(0, Math.min(100, Math.round(processed / total * 100))), total > 0
Pct(processed, total) ==
    LET rounded == (200 * processed + total) \div (2 * total)
    IN IF rounded > 100 THEN 100 ELSE IF rounded < 0 THEN 0 ELSE rounded

InitPage ==
    /\ ui = [pc |-> "idle", rebuildBtn |-> "enabled", uploads |-> "enabled",
             rebuildStatus |-> <<"">>, rebuildBar |-> 0, attempts |-> 0]
    /\ cfg = NoSide /\ emb = NoSide /\ sse = NoSide
    /\ RestOff

\* rebuildIndex up to the await of the start request
ClickRebuild ==
    /\ ui.pc = "idle"
    /\ ui.rebuildBtn = "enabled"
    /\ ui.attempts < MaxAttempts
    /\ ui' = [ui EXCEPT !.pc = "starting", !.rebuildBtn = "disabled",
                        !.uploads = "disabled", !.rebuildStatus = <<"Starting...">>,
                        !.rebuildBar = 0, !.attempts = @ + 1]
    /\ UNCHANGED <<restVars, cfg, emb, sse>>

\* the start request settles: the fetch rejects (catch), the response says
\* success, or it does not (also a body that is not JSON)
StartSettles ==
    /\ ui.pc = "starting"
    /\ \E outcome \in {"rejected", "success", "failure"} :
         ui' = CASE outcome = "rejected" ->
                      [ui EXCEPT !.pc = "idle", !.rebuildStatus = <<"Network error">>,
                                 !.rebuildBtn = "enabled", !.uploads = "enabled"]
                 [] outcome = "success" ->
                      [ui EXCEPT !.pc = "timer", !.rebuildStatus = <<"Scanning...">>]
                 [] outcome = "failure" ->
                      [ui EXCEPT !.pc = "idle", !.rebuildStatus = <<"Failed to start">>,
                                 !.rebuildBtn = "enabled"]
    /\ UNCHANGED <<restVars, cfg, emb, sse>>

\* the timer fires and poll runs to its end: the status request rejects (poll
\* is called by the timer, outside the try), or it reports error, done or
\* progress, and on progress the next timer is set
PagePoll ==
    /\ ui.pc = "timer"
    /\ \/ ui' = [ui EXCEPT !.pc = "idle"]
       \/ ui' = [ui EXCEPT !.pc = "idle", !.rebuildStatus = <<"Error">>,
                           !.rebuildBtn = "enabled", !.uploads = "enabled"]
       \/ \E processed \in 0..MaxCount :
            ui' = [ui EXCEPT !.pc = "idle", !.rebuildStatus = <<"Indexed", processed>>,
                             !.rebuildBar = 100,
                             !.rebuildBtn = "enabled", !.uploads = "enabled"]
       \/ \E stage \in {"scanning", "chunking", "embedding"},
             processed \in 0..MaxCount, total \in 0..MaxCount :
            ui' = [ui EXCEPT !.rebuildStatus = <<stage, processed, total>>,
                             !.rebuildBar = IF total > 0 THEN Pct(processed, total) ELSE @]
    /\ UNCHANGED <<restVars, cfg, emb, sse>>

NextPage == ClickRebuild \/ StartSettles \/ PagePoll

SpecPage == InitPage /\ [][NextPage]_vars

\* C34: the upload controls are disabled exactly while a rebuild started from
\* the page is in progress: disabled from the click on, enabled again once
\* the attempt has ended, however it ended.
C34_UploadsDisabledWhileRebuilding ==
    ui.pc # "off" => ((ui.uploads = "disabled") <=> (ui.pc \in {"starting", "timer"}))

-----------------------------------------------------------------------------
\* The settings store (settings.js) and the provider cache (llmAdapter.js).
\* Null stands for null; lastUpdated, the URL and the documents object are
\* left out.  The file is a sequence of path/value tokens, empty between the
\* open of a writeFile, which truncates, and its write.

Requests == 1..2          \* requests in flight at one time
MaxSaves == 2             \* POST /api/settings requests
MaxResolves == 2          \* completion calls

Null == [null |-> TRUE]

\* GROQ_API_KEY, LLM_MODE and the model variables unset in the environment
DEFAULT_SETTINGS ==
    [aiProvider |-> "ollama", groq |-> [apiKey |-> "", model |-> "gm0"],
     ollama |-> [model |-> "om0"]]

\* the file a previous run of the server left
StoredSettings ==
    [aiProvider |-> "groq", groq |-> [apiKey |-> "k1", model |-> "gm0"],
     ollama |-> [model |-> "om0"]]

\* bodies the settings form and other clients post
Updates ==
    { [aiProvider |-> "ollama", groq |-> << >>, ollama |-> << >>],
      [aiProvider |-> "groq", groq |-> [model |-> "gm1"], ollama |-> << >>],
      [aiProvider |-> "groq", groq |-> [apiKey |-> "k2"], ollama |-> << >>] }

\* { ...a, ...b }
Spread(a, b) == [k \in DOMAIN a \cup DOMAIN b |-> IF k \in DOMAIN b THEN b[k] ELSE a[k]]

\* merged of saveSettings, with the key kept when next.groq.apiKey is undefined
Merged(current, next) ==
    LET merged == [Spread(current, next) EXCEPT !.groq = Spread(current.groq, next.groq),
                                                !.ollama = Spread(current.ollama, next.ollama)]
    IN IF "apiKey" \notin DOMAIN next.groq
       THEN [merged EXCEPT !.groq = Spread(@, [apiKey |-> current.groq.apiKey])]
       ELSE merged

\* JSON.stringify(merged, null, 2)
SettingsJson(st) ==
    <<<<"aiProvider", st.aiProvider>>, <<"groq.apiKey", st.groq.apiKey>>,
      <<"groq.model", st.groq.model>>, <<"ollama.model", st.ollama.model>>>>

\* JSON.parse(data); Null when it throws (an empty file)
ParseSettings(text) ==
    IF Len(text) < 4 THEN Null
    ELSE [aiProvider |-> text[1][2], groq |-> [apiKey |-> text[2][2], model |-> text[3][2]],
          ollama |-> [model |-> text[4][2]]]

\* the provider resolveProvider builds from settings
ProviderOf(st) ==
    IF st.aiProvider = "groq"
    THEN [type |-> "groq", model |-> st.groq.model, apiKey |-> st.groq.apiKey]
    ELSE [type |-> "openai-compatible", model |-> st.ollama.model, apiKey |-> "ollama"]

IdleRequest ==
    [pc |-> "idle", kind |-> "none", next |-> Null, merged |-> Null, before |-> Null,
     data |-> <<>>, version |-> 0, result |-> Null, savedAtStart |-> Null,
     savedAtEnd |-> Null]

InitSettings ==
    /\ cfg \in [pc : {"on"},
                disk : {[exists |-> FALSE, text |-> <<>>],
                        [exists |-> TRUE, text |-> SettingsJson(StoredSettings)]},
                cachedSettings : {Null}, settingsVersion : {0},
                cachedProvider : {Null}, cachedVersion : {-1},
                saved : {Null}, saves : {0}, savesDone : {0}, resolves : {0},
                req : {[q \in Requests |-> IdleRequest]}]
    /\ emb = NoSide /\ ui = NoSide /\ sse = NoSide
    /\ RestOff

\* what is stored before a save: the cache, else the file, else nothing
StoredNow ==
    IF cfg.cachedSettings # Null THEN cfg.cachedSettings
    ELSE IF cfg.disk.exists THEN ParseSettings(cfg.disk.text) ELSE Null

\* POST /api/settings: saveSettings(body) up to await ensureStorageDir()
PostSettings(q) ==
    /\ cfg.pc = "on"
    /\ cfg.req[q].pc = "idle"
    /\ cfg.saves < MaxSaves
    /\ \E u \in Updates :
         cfg' = [cfg EXCEPT !.saves = @ + 1,
                            !.req[q] = [IdleRequest EXCEPT !.pc = "mkdir", !.kind = "save",
                                                           !.next = u]]
    /\ UNCHANGED <<restVars, emb, ui, sse>>

\* saveSettings from the merge to the call of fs.writeFile
SaveMerge(q) ==
    /\ cfg.pc = "on"
    /\ cfg.req[q].pc = "mkdir"
    /\ LET current == IF cfg.cachedSettings # Null THEN cfg.cachedSettings
                      ELSE DEFAULT_SETTINGS
           merged == Merged(current, cfg.req[q].next)
       IN cfg' = [cfg EXCEPT !.cachedSettings = merged,
                             !.settingsVersion = @ + 1,
                             !.saved = merged,
                             !.req[q].before = StoredNow,
                             !.req[q].merged = merged,
                             !.req[q].pc = "open"]
    /\ UNCHANGED <<restVars, emb, ui, sse>>

\* fs.writeFile opens the file for writing: it is truncated
WriteOpen(q) ==
    /\ cfg.pc = "on"
    /\ cfg.req[q].pc = "open"
    /\ cfg' = [cfg EXCEPT !.disk = [exists |-> TRUE, text |-> <<>>],
                          !.req[q].pc = "write"]
    /\ UNCHANGED <<restVars, emb, ui, sse>>

\* the provider is built from the settings loadSettings returned and cached
\* under the version read at the start of resolveProvider
Resolved(c, q, st) ==
    [c EXCEPT !.cachedProvider = ProviderOf(st),
              !.cachedVersion = c.req[q].version,
              !.req[q].result = ProviderOf(st),
              !.req[q].savedAtEnd = c.saved,
              !.req[q].pc = "idle"]

\* fs.writeFile writes and resolves: saveSettings returns; the save that
\* loadSettings started lets loadSettings return the cached settings
WriteData(q) ==
    /\ cfg.pc = "on"
    /\ cfg.req[q].pc = "write"
    /\ LET written == [cfg EXCEPT !.disk.text = SettingsJson(cfg.req[q].merged)]
       IN cfg' = IF cfg.req[q].kind = "save"
                 THEN [written EXCEPT !.savesDone = @ + 1, !.req[q].pc = "idle"]
                 ELSE Resolved(written, q, cfg.cachedSettings)
    /\ UNCHANGED <<restVars, emb, ui, sse>>

\* a completion call: resolveProvider up to its first await that waits
ResolveProvider(q) ==
    /\ cfg.pc = "on"
    /\ cfg.req[q].pc = "idle"
    /\ cfg.resolves < MaxResolves
    /\ LET version == cfg.settingsVersion
           started == [cfg EXCEPT !.resolves = @ + 1,
                                  !.req[q] = [IdleRequest EXCEPT
                                                !.kind = "resolve",
                                                !.version = version,
                                                !.savedAtStart =
                                                    IF cfg.savesDone > 0 THEN cfg.saved
                                                    ELSE Null]]
       IN cfg' = IF cfg.cachedProvider # Null /\ version = cfg.cachedVersion
                 THEN [started EXCEPT !.req[q].result = cfg.cachedProvider,
                                      !.req[q].savedAtEnd = cfg.saved]
                 ELSE IF cfg.cachedSettings # Null
                 THEN Resolved(started, q, cfg.cachedSettings)
                 ELSE [started EXCEPT !.req[q].pc = "reading"]
    /\ UNCHANGED <<restVars, emb, ui, sse>>

\* fs.readFile reads the file
ReadData(q) ==
    /\ cfg.pc = "on"
    /\ cfg.req[q].pc = "reading"
    /\ cfg' = [cfg EXCEPT !.req[q].data = IF cfg.disk.exists THEN cfg.disk.text ELSE <<>>,
                          !.req[q].pc = "read"]
    /\ UNCHANGED <<restVars, emb, ui, sse>>

\* loadSettings after its await: the parsed file becomes the cache; when the
\* file is missing or does not parse, the defaults do, and are saved
ReadReturn(q) ==
    /\ cfg.pc = "on"
    /\ cfg.req[q].pc = "read"
    /\ LET parsed == ParseSettings(cfg.req[q].data)
       IN cfg' = IF parsed # Null
                 THEN Resolved([cfg EXCEPT !.cachedSettings = parsed], q, parsed)
                 ELSE [cfg EXCEPT !.cachedSettings = DEFAULT_SETTINGS,
                                  !.req[q].next = DEFAULT_SETTINGS,
                                  !.req[q].pc = "mkdir"]
    /\ UNCHANGED <<restVars, emb, ui, sse>>

NextSettings ==
    \E q \in Requests :
        \/ PostSettings(q) \/ SaveMerge(q) \/ WriteOpen(q) \/ WriteData(q)
        \/ ResolveProvider(q) \/ ReadData(q) \/ ReadReturn(q)

SpecSettings == InitSettings /\ [][NextSettings]_vars

SettingsAtRest == cfg.pc = "on" /\ \A q \in Requests : cfg.req[q].pc = "idle"

\* C33: a completion call that starts after a settings save has completed
\* uses the provider of the latest saved settings (those saved last when it
\* started, or when it resolved).
C33_ProviderOfLatestSettings ==
    cfg.pc = "on" =>
        \A q \in Requests :
            (/\ cfg.req[q].kind = "resolve"
             /\ cfg.req[q].result # Null
             /\ cfg.req[q].savedAtStart # Null)
                => cfg.req[q].result \in {ProviderOf(cfg.req[q].savedAtStart),
                                          ProviderOf(cfg.req[q].savedAtEnd)}

\* C35: when overlapping saves, and nothing else, have run and completed, the
\* file holds the cached settings, which are those of the save that bumped
\* the version last.
C35_FileEqualsCacheAfterSaves ==
    (SettingsAtRest /\ cfg.resolves = 0 /\ cfg.savesDone >= 1)
        => /\ cfg.cachedSettings = cfg.saved
           /\ cfg.disk.exists
           /\ ParseSettings(cfg.disk.text) = cfg.cachedSettings

\* C39: a save whose update carries no groq.apiKey leaves the stored key as
\* it was, and every save leaves the model fields its update does not name
\* as they were.
C39_SaveKeepsUnnamedFields ==
    cfg.pc = "on" =>
        \A q \in Requests :
            (/\ cfg.req[q].kind = "save"
             /\ cfg.req[q].merged # Null
             /\ cfg.req[q].before # Null)
                => LET next == cfg.req[q].next
                       before == cfg.req[q].before
                       merged == cfg.req[q].merged
                   IN /\ "apiKey" \notin DOMAIN next.groq
                            => merged.groq.apiKey = before.groq.apiKey
                      /\ "model" \notin DOMAIN next.groq
                            => merged.groq.model = before.groq.model
                      /\ "model" \notin DOMAIN next.ollama
                            => merged.ollama.model = before.ollama.model

====
